---- MODULE Spec2Model ----
(***************************************************************************)
(* A model of the cyclang lowering engine: the tree walk of                *)
(* ASTContext::match_ast, the VariableCache symbol table, the control-flow *)
(* lowering of LLVMCodegenBuilder (if / while / for), its arithmetic and   *)
(* comparison dispatch, and an interpreter of the emitted basic blocks.    *)
(*                                                                         *)
(* A session lowers the statements of a program one after another into the *)
(* "main" routine, session end appends the implicit void return, and the   *)
(* emitted blocks are then executed one instruction at a time.  In         *)
(* ahead-of-time mode session end hands the module to the external         *)
(* toolchain first.  parse_function_program, the parser front end, is      *)
(* modelled beside it under a specification of its own (ParseSpec).        *)
(***************************************************************************)
EXTENDS Integers, Sequences, FiniteSets, TLC

VARIABLES
  prog,    \* the statements handed to the session, in order
  idx,     \* 1-based position of the next statement to lower
  phase,   \* "lowering" | "aborted" | "running" | "ended" | "parsing" | "parsed"
  st,      \* ASTContext and LLVMCodegenBuilder state, with the last result
  ex,      \* the execution of the emitted blocks
  env,     \* the session's mode and what the external toolchain will do
  sess,    \* what session end returned and which executable it ran
  rsrc,    \* the LLVM builder, module, execution engine and context
  input,   \* what the parser made of the source text
  parsed   \* what parse_function_program returned

vars == <<prog, idx, phase, st, ex, env, sess, rsrc, input, parsed>>

(***************************************************************************)
(* Bounds of the model.                                                    *)
(***************************************************************************)
MaxSteps == 60      \* instructions one execution may run
MaxDepth == 4       \* deepest block nesting the depth index is drawn for

(***************************************************************************)
(* Machine integers.  i32 values are kept in their real width; the 64-bit  *)
(* values of the model stay far inside the 64-bit range.                   *)
(***************************************************************************)
MaxI32 == 2147483647
MinI32 == -MaxI32 - 1

\* a + b in two's complement on 32 bits, computed without leaving the range
AddWrap32(a, b) ==
  IF a >= 0 /\ b >= 0 /\ a > MaxI32 - b
    THEN ((a - MaxI32) - 1) + ((b - MaxI32) - 1)
  ELSE IF a < 0 /\ b < 0 /\ a < MinI32 - b
    THEN ((a + MaxI32) + 1) + ((b + MaxI32) + 1)
  ELSE a + b

InI32(n) == MinI32 <= n /\ n <= MaxI32

(***************************************************************************)
(* Strings are sequences of characters; Quote is the double-quote.         *)
(***************************************************************************)
Quote == "\""

RECURSIVE ReplaceQuote(_)
\* str::replace('\"', ""): every double-quote character removed
ReplaceQuote(s) ==
  IF s = <<>> THEN <<>>
  ELSE IF Head(s) = Quote THEN ReplaceQuote(Tail(s))
  ELSE <<Head(s)>> \o ReplaceQuote(Tail(s))

(***************************************************************************)
(* Syntax-tree nodes (cyclang_parser::Expression).                         *)
(***************************************************************************)
Number(n)        == [tag |-> "Number", n |-> n]
Number64(n)      == [tag |-> "Number64", n |-> n]
String(s)        == [tag |-> "String", s |-> s]
Bool(b)          == [tag |-> "Bool", b |-> b]
Variable(name)   == [tag |-> "Variable", name |-> name]
Binary(l, op, r) == [tag |-> "Binary", lhs |-> l, op |-> op, rhs |-> r]
Grouping(e)      == [tag |-> "Grouping", e |-> e]
LetStmt(name, e) == [tag |-> "LetStmt", name |-> name, e |-> e]
BlockStmt(es)    == [tag |-> "BlockStmt", exprs |-> es]
CallStmt(name, args) == [tag |-> "CallStmt", name |-> name, args |-> args]
NoElse           == [tag |-> "None"]
IfStmt(c, t, e)  == [tag |-> "IfStmt", cond |-> c, then |-> t, else |-> e]
WhileStmt(c, b)  == [tag |-> "WhileStmt", cond |-> c, body |-> b]
ForStmt(v, init, length, incr, b) ==
  [tag |-> "ForStmt", name |-> v, init |-> init, length |-> length,
   incr |-> incr, body |-> b]
\* a function declaration; args are the parameter names and ret is the
\* declared return type: "i32" | "i64" | "Bool" | "String" | "List" | "None"
FuncStmt(name, args, ret, body) ==
  [tag |-> "FuncStmt", name |-> name, args |-> args, ret |-> ret, body |-> body]
List(items)      == [tag |-> "List", items |-> items]
PrintStmt(e)     == [tag |-> "Print", e |-> e]
ReturnStmt(e)    == [tag |-> "ReturnStmt", e |-> e]

(***************************************************************************)
(* Backend operands and instructions.                                      *)
(*   operand: a constant ("c"), an SSA register ("r"), a string constant   *)
(*   ("s") or nothing ("n"), with its bit width.                           *)
(***************************************************************************)
Const(v, w) == [t |-> "c", v |-> v, w |-> w]
Reg(r, w)   == [t |-> "r", v |-> r, w |-> w]
StrConst    == [t |-> "s", v |-> 0, w |-> 0]
NoOpnd      == [t |-> "n", v |-> 0, w |-> 0]

Ins(op, dst, a, b, x, t1, t2) ==
  [op |-> op, dst |-> dst, a |-> a, b |-> b, x |-> x, t1 |-> t1, t2 |-> t2,
   s |-> <<>>]

\* an instruction carrying a string constant (the content printed)
InsS(op, a, str) ==
  [op |-> op, dst |-> 0, a |-> a, b |-> NoOpnd, x |-> "", t1 |-> 0, t2 |-> 0,
   s |-> str]

IsTerminator(i) == i.op \in {"br", "condbr", "ret", "retvoid"}

(***************************************************************************)
(* Runtime values (the TypeBase implementations): kind, materialised       *)
(* backend value, storage cell (0 = None) and string payload.              *)
(***************************************************************************)
Value(kind, val, ptr, str) == [kind |-> kind, val |-> val, ptr |-> ptr, str |-> str]
VoidType   == Value("Void", NoOpnd, 0, <<>>)
ReturnType == Value("Return", NoOpnd, 0, <<>>)
NoValue    == Value("None", NoOpnd, 0, <<>>)

\* FuncType: the declared return type and the callable, the entry block of
\* the function's routine
FuncType(ret, entry) ==
  [kind |-> "Func", val |-> NoOpnd, ptr |-> 0, str |-> <<>>,
   ret |-> ret, entry |-> entry]

\* TypeBase::get_llvm_type: the width a value of this kind is loaded at
LlvmWidth(kind) ==
  CASE kind = "Number"   -> 32
    [] kind = "Number64" -> 64
    [] kind = "Bool"     -> 1
    [] OTHER             -> 8

OK == ""
Failed(s) == s.err # OK
Fail(s, e) == [s EXCEPT !.err = e, !.val = NoValue]
Yield(s, v) == [s EXCEPT !.val = v]

(***************************************************************************)
(* LLVMCodegenBuilder: emission primitives.  Every build_* appends at the  *)
(* builder position (pos); current_function.block is tracked beside it.    *)
(***************************************************************************)
Emit(s, i) == [s EXCEPT !.blocks[s.pos].ins = Append(@, i)]

\* build_alloca: the new cell is s'.ncell
BuildAlloca(s, name) ==
  Emit([s EXCEPT !.ncell = @ + 1],
       Ins("alloca", s.ncell + 1, NoOpnd, NoOpnd, name, 0, 0))

BuildStore(s, val, ptr) == Emit(s, Ins("store", ptr, val, NoOpnd, "", 0, 0))

\* build_load of width w: the loaded register is s'.nreg
BuildLoad(s, ptr, w) ==
  Emit([s EXCEPT !.nreg = @ + 1],
       Ins("load", s.nreg + 1, Const(ptr, w), NoOpnd, "", 0, 0))

BuildAllocaStore(s, val, name) ==
  LET s1 == BuildAlloca(s, name) IN BuildStore(s1, val, s1.ncell)

BuildLoadStore(s, loadPtr, storePtr, w) ==
  LET s1 == BuildLoad(s, loadPtr, w) IN BuildStore(s1, Reg(s1.nreg, w), storePtr)

AppendBasicBlock(s, name) ==
  [s EXCEPT !.blocks = Append(@, [name |-> name, ins |-> <<>>])]

PositionBuilderAtEnd(s, b) == [s EXCEPT !.pos = b]
SetCurrentBlock(s, b) == [s EXCEPT !.pos = b, !.block = b]

BuildBr(s, b) == Emit(s, Ins("br", 0, NoOpnd, NoOpnd, "", b, 0))
BuildCondBr(s, c, t, e) == Emit(s, Ins("condbr", 0, c, NoOpnd, "", t, e))
BuildRet(s, v) == Emit(s, Ins("ret", 0, v, NoOpnd, "", 0, 0))
BuildRetVoid(s) == Emit(s, Ins("retvoid", 0, NoOpnd, NoOpnd, "", 0, 0))

\* LLVMBuildSExt, LLVMBuildICmp and the llvm_build_fn arithmetic
BuildSExt(s, a) ==
  Emit([s EXCEPT !.nreg = @ + 1], Ins("sext", s.nreg + 1, a, NoOpnd, "", 0, 0))
BuildICmp(s, pred, a, b) ==
  Emit([s EXCEPT !.nreg = @ + 1], Ins("icmp", s.nreg + 1, a, b, pred, 0, 0))
LlvmBuildFn(s, a, b, op) ==
  Emit([s EXCEPT !.nreg = @ + 1], Ins("arith", s.nreg + 1, a, b, op, 0, 0))

\* cast_i32_to_i64(lhs_value, rhs_value): the state after the cast; the cast
\* value is CastResult
NeedsCast(lhsVal, rhsVal) == lhsVal.w = 32 /\ rhsVal.w = 64
CastI32ToI64(s, lhsVal, rhsVal) ==
  IF NeedsCast(lhsVal, rhsVal) THEN BuildSExt(s, lhsVal) ELSE s
CastResult(s, sAfter, lhsVal, rhsVal) ==
  IF NeedsCast(lhsVal, rhsVal) THEN Reg(sAfter.nreg, 64) ELSE lhsVal

(***************************************************************************)
(* VariableCache: a flat name -> value map and a depth -> names index.     *)
(* An absent map entry is NoValue, an absent index entry the empty list.   *)
(***************************************************************************)
Names == {"x", "y", "i", "b", "s", "f"}
Depths == 0..MaxDepth

NewVariableCache ==
  [map |-> [n \in Names |-> NoValue], local |-> [d \in Depths |-> <<>>]]

RECURSIVE RemoveAll(_, _)
RemoveAll(map, keys) ==
  IF keys = <<>> THEN map
  ELSE RemoveAll([map EXCEPT ![Head(keys)] = NoValue], Tail(keys))

\* a name already bound is left under the depth that first recorded it
PushLocalIfUnbound(cache, key, depth) ==
  IF cache.map[key] # NoValue THEN cache.local[depth]
  ELSE Append(cache.local[depth], key)

\* the index entry of `depth` with `key` pushed
PushLocal(cache, key, depth) == Append(cache.local[depth], key)

CacheSet(cache, key, v, depth) ==
  [map   |-> [cache.map EXCEPT ![key] = v],
   local |-> [cache.local EXCEPT ![depth] = PushLocal(cache, key, depth)]]

CacheGet(cache, key) == cache.map[key]

\* the map once the block at `depth` exits
EvictedMap(cache, depth) == RemoveAll(cache.map, cache.local[depth])

DelLocals(cache, depth) ==
  IF cache.local[depth] # <<>>
    THEN [map   |-> EvictedMap(cache, depth),
          local |-> [cache.local EXCEPT ![depth] = <<>>]]
  ELSE cache

(***************************************************************************)
(* The state threaded through lowering: ASTContext (var_cache, func_cache, *)
(* depth), LLVMCodegenBuilder (blocks of "main", builder position, current *)
(* block, cell and register counters) and the result of the last match_ast *)
(* (val, or err when it failed).                                           *)
(***************************************************************************)
MainBlock == 1

InitState ==
  [var_cache  |-> NewVariableCache,
   func_cache |-> NewVariableCache,
   depth      |-> 0,
   blocks     |-> <<[name |-> "main", ins |-> <<>>]>>,
   pos        |-> MainBlock,
   block      |-> MainBlock,
   ncell      |-> 0,
   nreg       |-> 0,
   val        |-> NoValue,
   err        |-> OK]

Incr(s) == [s EXCEPT !.depth = @ + 1]
Decr(s) == [s EXCEPT !.depth = @ - 1]

(***************************************************************************)
(* LLVMCodegenVisitor: literals and variables.                             *)
(***************************************************************************)
VisitNumber(e, s) ==
  IF e.tag = "Number"
    THEN LET v  == Const(e.n, 32)
             s1 == BuildAllocaStore(s, v, "num32")
         IN  Yield(s1, Value("Number", v, s1.ncell, <<>>))
    ELSE LET v  == Const(e.n, 64)
             s1 == BuildAllocaStore(s, v, "num64")
         IN  Yield(s1, Value("Number64", v, s1.ncell, <<>>))

\* the buffer pointer is a cast of the constant: a cell of its own, no alloca
VisitString(e, s) ==
  LET s1 == [s EXCEPT !.ncell = @ + 1]
  IN  Yield(s1, Value("String", StrConst, s1.ncell, e.s))

VisitBool(e, s) ==
  LET v  == Const(IF e.b THEN 1 ELSE 0, 1)
      s1 == BuildAllocaStore(s, v, "bool_value")
  IN  Yield(s1, Value("Bool", v, s1.ncell, <<>>))

\* current_function.symbol_table of "main": created empty and never filled
CurrentFunctionSymbolTable(s, name) == NoValue

VisitVariable(e, s) ==
  IF CurrentFunctionSymbolTable(s, e.name) # NoValue
    THEN Yield(s, CurrentFunctionSymbolTable(s, e.name))
  ELSE IF CacheGet(s.var_cache, e.name) # NoValue
    THEN Yield(s, CacheGet(s.var_cache, e.name))
  ELSE Fail(s, "UnknownIdentifier")

(***************************************************************************)
(* Value operations: assign, print, arithmetic, comparison.                *)
(***************************************************************************)
GetStr(v) == v.str

\* StringType::assign: a String right-hand side reloads the receiver's own
\* buffer and stores it back; any other kind is unreachable!()
StringAssign(s, self, rhs) ==
  IF rhs.kind = "String"
    THEN BuildLoadStore(s, self.ptr, self.ptr, 8)
  ELSE Fail(s, "KindMismatch")

\* assign of the scalar kinds: kind-checked, then the right-hand side's cell
\* is copied into the receiver's cell
ScalarAssign(s, self, rhs) ==
  IF rhs.kind # self.kind THEN Fail(s, "KindMismatch")
  ELSE IF rhs.ptr # 0
    THEN BuildLoadStore(s, rhs.ptr, self.ptr, LlvmWidth(self.kind))
  ELSE BuildStore(s, rhs.val, self.ptr)

Assign(s, self, rhs) ==
  IF self.kind = "String" THEN StringAssign(s, self, rhs)
  ELSE ScalarAssign(s, self, rhs)

\* StringType::eqeq and StringType::ne: the contents compared; a right-hand
\* side of another kind is unreachable!()
StringEqEq(self, rhs) ==
  IF rhs.kind = "String" THEN GetStr(self) = GetStr(rhs) ELSE "Panic"

StringNe(self, rhs) ==
  IF rhs.kind = "String" THEN GetStr(self) # GetStr(rhs) ELSE "Panic"

\* StringType::print: printf("%s\n", <the constant the value was built from>)
StringPrint(s, v) == Emit(s, InsS("print", StrConst, v.str))

\* render-for-print of the scalar kinds: the cell is reloaded and printed
ScalarPrint(s, v) ==
  IF v.ptr # 0
    THEN LET s1 == BuildLoad(s, v.ptr, LlvmWidth(v.kind))
         IN  Emit(s1, InsS("print", Reg(s1.nreg, LlvmWidth(v.kind)), <<>>))
  ELSE Emit(s, InsS("print", v.val, <<>>))

PrintValue(s, v) ==
  IF v.kind = "String" THEN StringPrint(s, v)
  ELSE IF v.kind \in {"Number", "Number64", "Bool"} THEN ScalarPrint(s, v)
  ELSE s

\* the content of a string concatenation
\* the quotes removed from the right operand only
ConcatStripRight(l, r) == l \o ReplaceQuote(r)

ConcatContent(l, r) == ReplaceQuote(l \o r)

\* the kind label of an arithmetic result: always a NumberType
ArithResultKind(lhs, rhs) == "Number"

\* arithmetic on two loaded (or materialised) operands
ArithOn(s, lhs, rhs, lv, rv, op) ==
  LET s1 == CastI32ToI64(s, lv, rv)
      l1 == CastResult(s, s1, lv, rv)
      s2 == CastI32ToI64(s1, rv, l1)
      r1 == CastResult(s1, s2, rv, l1)
      s3 == LlvmBuildFn(s2, l1, r1, op)
      res == Reg(s3.nreg, l1.w)
      s4 == BuildAllocaStore(s3, res, "param_add")
  IN  Yield(s4, Value(ArithResultKind(lhs, rhs), res, s4.ncell, <<>>))

Arithmetic(s, lhs, rhs, op) ==
  IF rhs.kind = "String"
    THEN LET s1 == [s EXCEPT !.ncell = @ + 1]
         IN  Yield(s1, Value("String", StrConst, s1.ncell,
                             ConcatContent(GetStr(lhs), GetStr(rhs))))
  ELSE IF rhs.kind \in {"Number", "Number64"}
    THEN IF lhs.ptr # 0 /\ rhs.ptr # 0
           THEN LET s1 == BuildLoad(s, lhs.ptr, LlvmWidth(lhs.kind))
                    s2 == BuildLoad(s1, rhs.ptr, LlvmWidth(rhs.kind))
                IN  ArithOn(s2, lhs, rhs, Reg(s1.nreg, LlvmWidth(lhs.kind)),
                            Reg(s2.nreg, LlvmWidth(rhs.kind)), op)
         ELSE ArithOn(s, lhs, rhs, lhs.val, rhs.val, op)
  ELSE Fail(s, "KindMismatch")

IcmpOn(s, lv, rv, pred) ==
  LET s1 == CastI32ToI64(s, lv, rv)
      l1 == CastResult(s, s1, lv, rv)
      s2 == CastI32ToI64(s1, rv, l1)
      r1 == CastResult(s1, s2, rv, l1)
      s3 == BuildICmp(s2, pred, l1, r1)
      res == Reg(s3.nreg, 1)
      s4 == BuildAllocaStore(s3, res, "bool_cmp")
  IN  Yield(s4, Value("Bool", res, s4.ncell, <<>>))

Icmp(s, lhs, rhs, pred) ==
  IF lhs.ptr # 0 /\ lhs.kind = "Number"
    THEN IF rhs.ptr = 0 THEN Fail(s, "Panic")
         ELSE LET s1 == BuildLoad(s, lhs.ptr, LlvmWidth(lhs.kind))
                  s2 == BuildLoad(s1, rhs.ptr, LlvmWidth(rhs.kind))
              IN  IcmpOn(s2, Reg(s1.nreg, LlvmWidth(lhs.kind)),
                         Reg(s2.nreg, LlvmWidth(rhs.kind)), pred)
  ELSE IcmpOn(s, lhs.val, rhs.val, pred)

Predicate(op) ==
  CASE op = "==" -> "EQ" [] op = "!=" -> "NE" [] op = "<" -> "SLT"
    [] op = "<=" -> "SLE" [] op = ">" -> "SGT" [] op = ">=" -> "SGE"

Cmp(s, lhs, rhs, op) ==
  IF rhs.kind = "String"
    THEN LET v  == Const(IF GetStr(lhs) = GetStr(rhs) THEN 1 ELSE 0, 1)
             s1 == BuildAllocaStore(s, v, "bool_value")
         IN  Yield(s1, Value("Bool", v, s1.ncell, <<>>))
  ELSE IF rhs.kind \in {"Number", "Bool"}
    THEN Icmp(s, lhs, rhs, Predicate(op))
  ELSE Fail(s, "KindMismatch")

ArithOps == {"+", "-", "/", "*"}
CmpOps   == {"==", "!=", "<", "<=", ">", ">="}

BinaryOp(s, lhs, rhs, op) ==
  IF op \in ArithOps THEN Arithmetic(s, lhs, rhs, op)
  ELSE IF op \in CmpOps THEN Cmp(s, lhs, rhs, op)
  ELSE Fail(s, "UnsupportedOperator")

(***************************************************************************)
(* ASTContext::match_ast and the control-flow lowering.                    *)
(***************************************************************************)
\* LetStmt, name unbound: the lowered right-hand side is set at this depth
LetFresh(s, name) ==
  [s EXCEPT !.var_cache = CacheSet(s.var_cache, name, s.val, s.depth)]

\* the assignment made through an alias of the cached binding: the binding
\* itself takes the right-hand side's value and content
LetRebindAliased(s, val) ==
  LET s1 == Assign(s, val, s.val)
      new == [val EXCEPT !.val = s.val.val, !.str = s.val.str]
  IN  IF Failed(s1) THEN s1
      ELSE Yield([s1 EXCEPT !.var_cache.map =
                    [n \in Names |-> IF s1.var_cache.map[n] = val THEN new
                                     ELSE s1.var_cache.map[n]]], val)

\* LetStmt, name bound: the copy `val` got from the cache is assigned to
\* and returned; the cache itself is not written
LetRebind(s, val) ==
  LET s1 == Assign(s, val, s.val)
  IN  IF Failed(s1) THEN s1 ELSE Yield(s1, val)

\* the block exit without the eviction of the block's names
BlockExitKeepLocals(s) == Decr(s)

\* BlockStmt exit: del_locals on the variable cache, then decr
BlockExit(s) ==
  Decr([s EXCEPT !.var_cache = DelLocals(s.var_cache, s.depth)])

\* a call emitted for the absent name, lowering carrying on
CallMissingEmitsCall(s, name) ==
  Yield(Emit(s, Ins("call", 0, NoOpnd, NoOpnd, name, 0, 0)), VoidType)

\* CallStmt of a name the function cache does not hold
CallMissing(s, name) == Fail(s, "UnknownIdentifier")

\* a branch to merge after every branch, returning or not
IfBranchEndAlways(s, merge) == BuildBr(s, merge)

\* the end of a lowered then / else branch: a branch to merge unless the
\* branch yielded the Return marker
IfBranchEnd(s, merge) ==
  IF s.val.kind = "Return" THEN s ELSE BuildBr(s, merge)

\* a missing else: positioned at else_block, a branch straight to merge
IfNoElse(s, elseB, merge) == BuildBr(PositionBuilderAtEnd(s, elseB), merge)

\* the conditional branch emitted where lowering stands (at merge) instead of
\* back in the entry block
IfCondBrAtMerge(s, entry, cond, thenB, elseB, merge) ==
  LET s1 == SetCurrentBlock(s, merge)
      s2 == BuildLoad(s1, cond.ptr, 1)
  IN  BuildCondBr(s2, Reg(s2.nreg, 1), thenB, elseB)

\* the conditional branch emitted in the entry block and lowering left there
IfCondBrStaysInEntry(s, entry, cond, thenB, elseB, merge) ==
  LET s1 == SetCurrentBlock(PositionBuilderAtEnd(s, merge), entry)
      s2 == BuildLoad(s1, cond.ptr, 1)
  IN  BuildCondBr(s2, Reg(s2.nreg, 1), thenB, elseB)

\* the tail of new_if_stmt: back in the entry block the condition's cell is
\* reloaded and the conditional branch emitted; lowering goes on at merge
IfCondBr(s, entry, cond, thenB, elseB, merge) ==
  LET s1 == SetCurrentBlock(SetCurrentBlock(PositionBuilderAtEnd(s, merge), merge), entry)
  IN  IF cond.ptr = 0 THEN Fail(s1, "Panic")
      ELSE LET s2 == BuildLoad(s1, cond.ptr, 1)
               s3 == BuildCondBr(s2, Reg(s2.nreg, 1), thenB, elseB)
           IN  SetCurrentBlock(s3, merge)

\* return_type of new_if_stmt
IfReturnType(thenVal, elseVal) ==
  IF thenVal.kind = "Return" \/ elseVal.kind = "Return" THEN ReturnType ELSE VoidType

\* new_while_stmt before the body: the scratch cell, the condition's cell
\* reloaded and stored into it, the branch into loop_cond
WhileEnter(s, cond, condB) ==
  IF cond.ptr = 0 THEN Fail(s, "Panic")
  ELSE LET s1 == BuildLoad(s, cond.ptr, 1)
           s2 == BuildStore(s1, Reg(s1.nreg, 1), cond.scratch)
       IN  BuildBr(s2, condB)

\* loop_cond with the targets of its conditional branch exchanged
WhileCondBlockSwapped(s, cond, condB, bodyB, exitB) ==
  LET s1 == SetCurrentBlock(BuildBr(s, condB), condB)
      s2 == BuildLoad(s1, cond.ptr, 1)
      s3 == BuildCondBr(s2, Reg(s2.nreg, 1), exitB, bodyB)
  IN  SetCurrentBlock(s3, exitB)

\* loop_cond reloading the scratch copy made before the loop
WhileCondBlockScratch(s, cond, condB, bodyB, exitB) ==
  LET s1 == SetCurrentBlock(BuildBr(s, condB), condB)
      s2 == BuildLoad(s1, cond.scratch, 1)
      s3 == BuildCondBr(s2, Reg(s2.nreg, 1), bodyB, exitB)
  IN  SetCurrentBlock(s3, exitB)

\* new_while_stmt after the body: the back edge, then loop_cond's reload of
\* the condition's cell and the conditional branch; lowering goes on at exit
WhileCondBlock(s, cond, condB, bodyB, exitB) ==
  LET s1 == SetCurrentBlock(BuildBr(s, condB), condB)
      s2 == BuildLoad(s1, cond.ptr, 1)
      s3 == BuildCondBr(s2, Reg(s2.nreg, 1), bodyB, exitB)
  IN  SetCurrentBlock(s3, exitB)

\* NumberType::new(init, "i"): the constant and its stack cell
NumberTypeNew(s, init) ==
  LET v  == Const(init, 32)
      s1 == BuildAllocaStore(s, v, "i")
  IN  Yield(s1, Value("Number", v, s1.ncell, <<>>))

\* the loop variable set at the depth of the loop body
ForInitAtBodyDepth(s, name, init) ==
  LET s1 == NumberTypeNew(s, init)
      i  == s1.val
      s2 == [s1 EXCEPT !.var_cache = CacheSet(s1.var_cache, name, i, s1.depth + 1)]
  IN  BuildStore(s2, i.val, i.ptr)

\* new_for_loop up to the branch into loop_cond: the loop variable is set at
\* the current depth and initialised
ForInit(s, name, init) ==
  LET s1 == NumberTypeNew(s, init)
      i  == s1.val
      s2 == [s1 EXCEPT !.var_cache = CacheSet(s1.var_cache, name, i, s1.depth)]
  IN  BuildStore(s2, i.val, i.ptr)

\* the loop test never reversed
ForPredicateForward(increment) == "SLT"

\* the predicate of the loop test, chosen from the literal step
ForPredicate(increment) == IF increment < 0 THEN "SGT" ELSE "SLT"

\* op_rhs.try_into().unwrap(): the bound as an unsigned 64-bit number
ForBoundFits(length) == length >= 0

\* loop_cond of new_for_loop
ForCondBlock(s, ptr, length, increment, bodyB, exitB) ==
  LET s1 == BuildLoad(s, ptr, 32)
  IN  IF ~ForBoundFits(length) THEN Fail(s1, "Panic")
      ELSE LET s2 == BuildICmp(s1, ForPredicate(increment), Reg(s1.nreg, 32),
                               Const(length, 32))
           IN  BuildCondBr(s2, Reg(s2.nreg, 1), bodyB, exitB)

\* the end of loop_body: reload, add the step, store, branch back
ForStep(s, ptr, increment, condB) ==
  LET s1 == BuildLoad(s, ptr, 32)
      s2 == LlvmBuildFn(s1, Reg(s1.nreg, 32), Const(increment, 32), "+")
      s3 == BuildStore(s2, Reg(s2.nreg, 32), ptr)
  IN  BuildBr(s3, condB)

\* LLVMBuildCall2: the call of the routine entered at `entry` with the lowered
\* arguments; the raw result is the register s'.nreg
BuildCall(s, entry, args) ==
  Emit([s EXCEPT !.nreg = @ + 1],
       [Ins("call", s.nreg + 1, NoOpnd, NoOpnd, "", entry, 0) EXCEPT !.s = args])

\* the width of the raw result of a call
ReturnWidth(ret) ==
  CASE ret = "i32" -> 32 [] ret = "i64" -> 64 [] ret = "Bool" -> 1 [] OTHER -> 0

\* FuncType::call after the call was emitted: the raw result wrapped by the
\* declared return type
WrapCallValue(s, ret) ==
  LET r == Reg(s.nreg, ReturnWidth(ret))
  IN  CASE ret = "i32" ->
             Yield(BuildAllocaStore(s, r, "call_value_int32"), Value("Number", r, 0, <<>>))
        [] ret = "i64" ->
             Yield(BuildAllocaStore(s, r, "call_value_int64"), Value("Number", r, 0, <<>>))
        [] ret = "Bool" ->
             LET s1 == BuildAllocaStore(s, r, "bool_value")
             IN  Yield(s1, Value("Bool", r, s1.ncell, <<>>))
        [] ret \in {"String", "List"} -> Fail(s, "UnsupportedReturnKind")
        [] OTHER -> Yield(s, VoidType)

\* the result of the call recorded under the outermost depth
CallBindOutermost(s, name) ==
  [s EXCEPT !.var_cache = CacheSet(s.var_cache, name, s.val, 0)]

\* CallStmt after a successful call: the result is set under the function's
\* own name in the variable cache, at the current depth
CallBind(s, name) ==
  [s EXCEPT !.var_cache = CacheSet(s.var_cache, name, s.val, s.depth)]

\* FuncStmt after LLVMFunction::new: the FuncType is set in the function
\* cache at the current depth
FuncBind(s, name, func) ==
  Yield([s EXCEPT !.func_cache = CacheSet(s.func_cache, name, func, s.depth)], func)

RECURSIVE Lower(_, _), LowerExprs(_, _), NewIfStmt(_, _), NewWhileStmt(_, _),
          NewForLoop(_, _), LowerArgs(_, _, _), FuncTypeCall(_, _, _),
          LLVMFunctionNew(_, _)

\* the loop of FuncType::call over the arguments: each lowered in call order,
\* its value pushed; s.val is left as it was, the values are in .args
LowerArgs(args, s, acc) ==
  IF args = <<>> THEN [state |-> s, args |-> acc]
  ELSE LET s1 == Lower(Head(args), s)
       IN  IF Failed(s1) THEN [state |-> s1, args |-> acc]
           ELSE LowerArgs(Tail(args), s1, Append(acc, s1.val.val))

FuncTypeCall(func, args, s) ==
  LET la == LowerArgs(args, s, <<>>)
  IN  IF Failed(la.state) THEN la.state
      ELSE WrapCallValue(BuildCall(la.state, func.entry, la.args), func.ret)

\* LLVMFunction::new: the body is lowered into the entry block of a routine
\* of its own, a routine that returns nothing is closed by a void return,
\* and emission goes back to the block it was called from
LLVMFunctionNew(e, s) ==
  LET s1    == AppendBasicBlock(s, "entry")
      entry == Len(s1.blocks)
      s2    == Lower(e.body, SetCurrentBlock(s1, entry))
  IN  IF Failed(s2) THEN s2
      ELSE LET s3 == IF e.ret = "None" THEN BuildRetVoid(s2) ELSE s2
           IN  Yield(SetCurrentBlock(s3, s.block), FuncType(e.ret, entry))

\* the statements of a block in order, stopping at the first failure
LowerExprs(exprs, s) ==
  IF exprs = <<>> THEN s
  ELSE LET s1 == Lower(Head(exprs), s)
       IN  IF Failed(s1) THEN s1 ELSE LowerExprs(Tail(exprs), s1)

NewIfStmt(e, s) ==
  LET entry == s.block
      s1 == Lower(e.cond, PositionBuilderAtEnd(s, entry))
  IN  IF Failed(s1) THEN s1 ELSE
  LET cond  == s1.val
      s2    == AppendBasicBlock(s1, "then_block")
      thenB == Len(s2.blocks)
      s3    == AppendBasicBlock(s2, "merge_block")
      merge == Len(s3.blocks)
      s4    == Lower(e.then, SetCurrentBlock(s3, thenB))
  IN  IF Failed(s4) THEN s4 ELSE
  LET s5    == AppendBasicBlock(IfBranchEnd(s4, merge), "else_block")
      elseB == Len(s5.blocks)
      s6    == SetCurrentBlock(s5, elseB)
      s7    == IF e.else = NoElse THEN Yield(s6, VoidType) ELSE Lower(e.else, s6)
  IN  IF Failed(s7) THEN s7 ELSE
  LET s8    == IF e.else = NoElse THEN IfNoElse(s7, elseB, merge)
               ELSE IfBranchEnd(s7, merge)
      s9    == IfCondBr(s8, entry, cond, thenB, elseB, merge)
  IN  IF Failed(s9) THEN s9 ELSE Yield(s9, IfReturnType(s4.val, s7.val))

NewWhileStmt(e, s) ==
  LET s1    == AppendBasicBlock(s, "loop_cond")
      condB == Len(s1.blocks)
      s2    == AppendBasicBlock(s1, "loop_body")
      bodyB == Len(s2.blocks)
      s3    == AppendBasicBlock(s2, "loop_exit")
      exitB == Len(s3.blocks)
      s4    == BuildAlloca(s3, "while_value_bool_var")
      s5    == Lower(e.cond, s4)
  IN  IF Failed(s5) THEN s5 ELSE
  LET cond  == [ptr |-> s5.val.ptr, scratch |-> s4.ncell]
      s6    == WhileEnter(s5, cond, condB)
  IN  IF Failed(s6) THEN s6 ELSE
  LET s7    == Lower(e.body, SetCurrentBlock(s6, bodyB))
  IN  IF Failed(s7) THEN s7
      ELSE Yield(WhileCondBlock(s7, cond, condB, bodyB, exitB), s5.val)

NewForLoop(e, s) ==
  LET s0    == SetCurrentBlock(s, s.block)
      s1    == AppendBasicBlock(s0, "loop_cond")
      condB == Len(s1.blocks)
      s2    == AppendBasicBlock(s1, "loop_body")
      bodyB == Len(s2.blocks)
      s3    == AppendBasicBlock(s2, "loop_exit")
      exitB == Len(s3.blocks)
      s4    == ForInit(s3, e.name, e.init)
      ptr   == s4.val.ptr
      s5    == ForCondBlock(SetCurrentBlock(BuildBr(s4, condB), condB), ptr,
                            e.length, e.incr, bodyB, exitB)
  IN  IF Failed(s5) THEN s5 ELSE
  LET s6    == Lower(e.body, SetCurrentBlock(s5, bodyB))
  IN  IF Failed(s6) THEN s6
      ELSE Yield(SetCurrentBlock(ForStep(s6, ptr, e.incr, condB), exitB), s6.val)

Lower(e, s) ==
  CASE e.tag \in {"Number", "Number64"} -> VisitNumber(e, s)
    [] e.tag = "String"   -> VisitString(e, s)
    [] e.tag = "Bool"     -> VisitBool(e, s)
    [] e.tag = "Variable" -> VisitVariable(e, s)
    [] e.tag = "Binary" ->
         LET s1 == Lower(e.lhs, s)
         IN  IF Failed(s1) THEN s1 ELSE
             LET s2 == Lower(e.rhs, s1)
             IN  IF Failed(s2) THEN s2 ELSE BinaryOp(s2, s1.val, s2.val, e.op)
    [] e.tag = "Grouping" -> Lower(e.e, s)
    [] e.tag = "LetStmt" ->
         LET val == CacheGet(s.var_cache, e.name)
             s1  == Lower(e.e, s)
         IN  IF Failed(s1) THEN s1
             ELSE IF val # NoValue THEN LetRebind(s1, val)
             ELSE LetFresh(s1, e.name)
    [] e.tag = "BlockStmt" ->
         LET s1 == LowerExprs(e.exprs, Yield(Incr(s), VoidType))
         IN  IF Failed(s1) THEN s1 ELSE BlockExit(s1)
    [] e.tag = "CallStmt" ->
         IF CacheGet(s.func_cache, e.name) = NoValue THEN CallMissing(s, e.name)
         ELSE LET s1 == FuncTypeCall(CacheGet(s.func_cache, e.name), e.args, s)
              IN  IF Failed(s1) THEN s1 ELSE CallBind(s1, e.name)
    [] e.tag = "FuncStmt" ->
         LET s1 == LLVMFunctionNew(e, s)
         IN  IF Failed(s1) THEN s1 ELSE FuncBind(s1, e.name, s1.val)
    [] e.tag = "IfStmt"    -> NewIfStmt(e, s)
    [] e.tag = "WhileStmt" -> NewWhileStmt(e, s)
    [] e.tag = "ForStmt"   -> NewForLoop(e, s)
    [] e.tag = "Print" ->
         LET s1 == Lower(e.e, s)
         IN  IF Failed(s1) THEN s1 ELSE Yield(PrintValue(s1, s1.val), s1.val)
    [] e.tag = "ReturnStmt" ->
         LET s1 == Lower(e.e, s)
         IN  IF Failed(s1) THEN s1 ELSE Yield(BuildRet(s1, s1.val.val), ReturnType)
    \* Expression::List has no arm (its dispatch is commented out), like Nil
    \* and every node left to `_ => unimplemented!()`
    [] OTHER -> Fail(s, "Unimplemented")

(***************************************************************************)
(* Execution of the emitted "main" routine, one instruction per step.      *)
(*   status: "idle" | "running" | "returned" | "fell_off" | "ub"           *)
(***************************************************************************)
IdleExec ==
  [status |-> "idle", b |-> 0, i |-> 0, regs |-> <<>>, mem |-> <<>>,
   hits |-> <<>>, rets |-> 0, retval |-> NoOpnd, out |-> <<>>, steps |-> 0,
   stack |-> <<>>]

StartExec(s) ==
  [status |-> "running", b |-> MainBlock, i |-> 1,
   regs   |-> [r \in 1..s.nreg |-> 0],
   mem    |-> [c \in 1..s.ncell |-> 0],
   hits   |-> [k \in 1..Len(s.blocks) |-> IF k = MainBlock THEN 1 ELSE 0],
   rets   |-> 0, retval |-> NoOpnd, out |-> <<>>, steps |-> 0,
   stack  |-> <<>>]

OperandVal(e, o) ==
  IF o.t = "c" THEN o.v ELSE IF o.t = "r" THEN e.regs[o.v] ELSE 0

\* an operand as a signed integer: the i1 value 1 is -1
SignedVal(e, o) ==
  IF o.w = 1 /\ OperandVal(e, o) = 1 THEN -1 ELSE OperandVal(e, o)

ICmpResult(pred, a, b) ==
  LET r == CASE pred = "EQ"  -> a = b
             [] pred = "NE"  -> a # b
             [] pred = "SLT" -> a < b
             [] pred = "SLE" -> a <= b
             [] pred = "SGT" -> a > b
             [] pred = "SGE" -> a >= b
  IN  IF r THEN 1 ELSE 0

\* sdiv: the quotient truncated toward zero
SDiv(a, b) ==
  LET q == (IF a < 0 THEN -a ELSE a) \div (IF b < 0 THEN -b ELSE b)
  IN  IF (a < 0) = (b < 0) THEN q ELSE -q

ArithResult(op, w, a, b) ==
  CASE op = "+" -> IF w = 32 THEN AddWrap32(a, b) ELSE a + b
    [] op = "-" -> IF w = 32 /\ b # MinI32 THEN AddWrap32(a, -b) ELSE a - b
    [] op = "*" -> a * b
    [] op = "/" -> SDiv(a, b)

Jump(e, target) ==
  [e EXCEPT !.b = target, !.i = 1, !.hits[target] = @ + 1]

Advance(e) == [e EXCEPT !.i = @ + 1]

\* a return: out of "main" it ends the execution, out of a called routine it
\* resumes the caller after the call with the result in the call's register
Return(e, v, w) ==
  IF e.stack = <<>>
    THEN [e EXCEPT !.status = "returned", !.rets = @ + 1, !.retval = Const(v, w)]
  ELSE LET f == e.stack[Len(e.stack)]
       IN  [e EXCEPT !.rets = @ + 1, !.b = f.b, !.i = f.i, !.regs[f.dst] = v,
                     !.stack = SubSeq(@, 1, Len(@) - 1)]

Execute(e, ins) ==
  CASE ins.op = "alloca" -> Advance(e)
    [] ins.op = "store"  -> Advance([e EXCEPT !.mem[ins.dst] = OperandVal(e, ins.a)])
    [] ins.op = "load"   -> Advance([e EXCEPT !.regs[ins.dst] = e.mem[ins.a.v]])
    [] ins.op = "sext"   -> Advance([e EXCEPT !.regs[ins.dst] = SignedVal(e, ins.a)])
    [] ins.op = "icmp"   ->
         Advance([e EXCEPT !.regs[ins.dst] =
                    ICmpResult(ins.x, SignedVal(e, ins.a), SignedVal(e, ins.b))])
    [] ins.op = "arith"  ->
         IF ins.x = "/" /\ OperandVal(e, ins.b) = 0 THEN [e EXCEPT !.status = "ub"]
         ELSE Advance([e EXCEPT !.regs[ins.dst] =
                         ArithResult(ins.x, ins.a.w, OperandVal(e, ins.a),
                                     OperandVal(e, ins.b))])
    [] ins.op = "print"  ->
         Advance([e EXCEPT !.out = Append(@, [v |-> OperandVal(e, ins.a), s |-> ins.s])])
    [] ins.op = "br"     -> Jump(e, ins.t1)
    [] ins.op = "condbr" ->
         Jump(e, IF OperandVal(e, ins.a) = 1 THEN ins.t1 ELSE ins.t2)
    [] ins.op = "call"   ->
         Jump([e EXCEPT !.stack = Append(@, [b |-> e.b, i |-> e.i + 1, dst |-> ins.dst])],
              ins.t1)
    [] ins.op = "ret"    -> Return(e, OperandVal(e, ins.a), ins.a.w)
    [] ins.op = "retvoid" ->
         IF e.stack = <<>> THEN [e EXCEPT !.status = "returned", !.rets = @ + 1]
         ELSE Return(e, 0, 0)

\* one step: the instruction at (b, i), or falling off a block that has none
StepExec(s, e) ==
  LET code == s.blocks[e.b].ins
      e1   == [e EXCEPT !.steps = @ + 1]
  IN  IF e.i > Len(code) THEN [e1 EXCEPT !.status = "fell_off"]
      ELSE Execute(e1, code[e.i])

(***************************************************************************)
(* The session.                                                            *)
(***************************************************************************)
\* the compile driver: statements are lowered in order at depth 0 and the
\* first failure aborts the session
LowerStmt ==
  /\ phase = "lowering"
  /\ idx <= Len(prog)
  /\ LET s1 == Lower(prog[idx], Yield(st, NoValue))
     IN  /\ st' = s1
         /\ phase' = IF Failed(s1) THEN "aborted" ELSE "lowering"
         /\ idx' = IF Failed(s1) THEN idx ELSE idx + 1
  /\ UNCHANGED <<prog, ex, env, sess, rsrc, input, parsed>>

\* the session's environment: execution-engine mode or ahead-of-time, what
\* starting clang does, and whether an earlier session left a bin/main
Envs ==
  [engine : BOOLEAN, clang : {"ok", "fails", "absent"}, stale : BOOLEAN]
DefaultEnv == [engine |-> TRUE, clang |-> "ok", stale |-> FALSE]

NoSession == [result |-> "pending", ran |-> "none"]

\* emit_binary: ahead of time clang is started on bin/main.ll and only a
\* failure to start it is an error (`output()?`); its exit status is not
\* looked at; then bin/main is started, whatever put it there
EmitBinary(e) ==
  IF e.engine THEN [result |-> "ok", ran |-> "engine"]
  ELSE IF e.clang = "absent" THEN [result |-> "err", ran |-> "none"]
  ELSE IF e.clang = "ok" THEN [result |-> "ok", ran |-> "built"]
  ELSE IF e.stale THEN [result |-> "ok", ran |-> "stale"]
  ELSE [result |-> "err", ran |-> "none"]

\* the resources LLVMCodegenBuilder::init creates; the execution engine does
\* not exist before session end.  Each is "none", "live", "owned" (the module
\* once an engine was created for it: the engine disposes of it), "released",
\* or "double" once released when it was not live; log is the order of the
\* releases and misused tells of a use of a resource that was not live
NewResources ==
  [builder |-> "live", module |-> "live", engine |-> "none", context |-> "live",
   log |-> <<>>, misused |-> FALSE]

Use(r, name) == [r EXCEPT !.misused = @ \/ r[name] \notin {"live", "owned"}]

Release(r, name) ==
  [r EXCEPT ![name] = IF @ = "live" THEN "released" ELSE "double",
            !.log = Append(@, name)]

\* LLVMCreateExecutionEngineForModule
CreateExecutionEngine(r) ==
  [Use(r, "module") EXCEPT !.engine = "live", !.module = "owned"]

\* LLVMPrintModuleToFile
PrintModuleToFile(r) == Use(r, "module")

\* the clean up with the module released in both modes
DisposeModuleToo(r, engine) ==
  LET r1 == Release(r, "builder")
      r2 == IF engine THEN Release(r1, "engine") ELSE r1
  IN  Release(Release(r2, "module"), "context")

\* the clean up of dispose_and_get_module_str
Dispose(r, engine) ==
  LET r1 == Release(r, "builder")
      r2 == IF engine THEN Release(r1, "engine") ELSE r1
      r3 == IF ~engine THEN Release(r2, "module") ELSE r2
  IN  Release(r3, "context")

\* dispose_and_get_module_str up to the start of "main": the implicit void
\* return; in process the engine is created and "main" entered; ahead of time
\* the module is written out, everything is released and emit_binary builds
\* and runs bin/main
SessionEnd ==
  /\ phase = "lowering"
  /\ idx > Len(prog)
  /\ st' = BuildRetVoid(st)
  /\ sess' = EmitBinary(env)
  /\ rsrc' = IF env.engine THEN CreateExecutionEngine(Use(rsrc, "builder"))
             ELSE Dispose(PrintModuleToFile(Use(rsrc, "builder")), FALSE)
  /\ phase' = IF sess'.ran \in {"engine", "built"} THEN "running" ELSE "ended"
  /\ ex' = IF sess'.ran \in {"engine", "built"} THEN StartExec(st') ELSE IdleExec
  /\ UNCHANGED <<prog, idx, env, input, parsed>>

\* one instruction of "main": in process it runs out of the engine
ExecStep ==
  /\ phase = "running"
  /\ ex.status = "running"
  /\ ex.steps < MaxSteps
  /\ ex' = StepExec(st, ex)
  /\ rsrc' = IF env.engine THEN Use(rsrc, "engine") ELSE rsrc
  /\ UNCHANGED <<prog, idx, phase, st, env, sess, input, parsed>>

\* dispose_and_get_module_str after main_func() came back, in process
SessionDispose ==
  /\ phase = "running"
  /\ env.engine
  /\ ex.status \notin {"idle", "running"}
  /\ rsrc.context = "live"
  /\ rsrc' = Dispose(rsrc, TRUE)
  /\ UNCHANGED <<prog, idx, phase, st, ex, env, sess, input, parsed>>

(***************************************************************************)
(* The programs the session is given.                                      *)
(***************************************************************************)
MaxProgLen == 3     \* statements of a program of the scoping family

Strs  == {<<>>, <<"a">>, <<Quote>>, <<"a", Quote>>, <<Quote, "b">>,
          <<"b", Quote, "c">>}

Block0 == BlockStmt(<<>>)
Block1(e) == BlockStmt(<<e>>)
Block2(e1, e2) == BlockStmt(<<e1, e2>>)

\* let / block / return statements over Number variables
ScopeStmts ==
  { LetStmt("x", Number(1)),
    LetStmt("x", Number(2)),
    Block1(LetStmt("x", Number(2))),
    Block1(LetStmt("y", Number(1))),
    Block2(LetStmt("y", Number(1)), Block2(LetStmt("x", Number(3)), LetStmt("y", Number(2)))),
    Block2(LetStmt("y", Number(1)), ReturnStmt(Variable("y"))),
    ReturnStmt(Variable("x")),
    ReturnStmt(Variable("y")) }

RECURSIVE SeqsUpTo(_, _)
SeqsUpTo(S, n) ==
  IF n = 0 THEN {<<>>}
  ELSE LET shorter == SeqsUpTo(S, n - 1)
       IN  shorter \cup {Append(p, e) : p \in shorter, e \in S}

ScopePrograms == SeqsUpTo(ScopeStmts, MaxProgLen) \ {<<>>}

\* a String variable rebound, then read
StringReads(b) ==
  { Binary(Variable("s"), "==", String(b)),
    ReturnStmt(Binary(Variable("s"), "==", String(b))),
    Binary(Variable("s"), "+", String(<<>>)),
    PrintStmt(Variable("s")) }

RebindPrograms ==
  { <<LetStmt("s", String(a)), LetStmt("s", r)>> \o tail :
      a \in {<<"a">>, <<"b">>},
      r \in {String(<<"a">>), String(<<"b">>), Number(1)},
      tail \in {<<>>} \cup {<<q>> : q \in StringReads(<<"b">>)} }

\* string concatenation of literals and of a variable with a literal
ConcatPrograms ==
  { <<Binary(String(l), "+", String(r))>> : l \in Strs, r \in Strs }
  \cup { <<LetStmt("s", String(l)), Binary(Variable("s"), "+", String(r))>> :
           l \in Strs, r \in Strs }

\* if / else over returning and non-returning branches
Conds ==
  { Bool(TRUE), Bool(FALSE),
    Binary(Number(1), "<", Number(2)), Binary(Number(2), "<", Number(1)) }

Branches ==
  { Block0,
    Block1(PrintStmt(Number(7))),
    Block1(ReturnStmt(Number(1))),
    Block2(PrintStmt(Number(7)), ReturnStmt(Number(2))),
    Block1(IfStmt(Bool(FALSE), Block1(ReturnStmt(Number(1))), NoElse)) }

Tails == { <<>>, <<PrintStmt(Number(9))>>, <<ReturnStmt(Number(3))>> }

IfPrograms ==
  { <<IfStmt(c, t, e)>> \o tail :
      c \in Conds, t \in Branches, e \in Branches \cup {NoElse}, tail \in Tails }

\* while loops over a Bool variable, literals and comparisons
WhileConds ==
  { Variable("b"), Bool(TRUE), Bool(FALSE),
    Binary(Variable("x"), "<", Number(2)), Binary(Number(2), "<", Variable("x")) }

WhileBodies ==
  { Block0,
    Block1(LetStmt("b", Bool(FALSE))),
    Block1(PrintStmt(Variable("x"))),
    Block2(LetStmt("x", Binary(Variable("x"), "+", Number(1))),
           LetStmt("b", Binary(Variable("x"), "<", Number(2)))),
    Block1(ReturnStmt(Number(1))) }

WhilePrograms ==
  { <<LetStmt("x", Number(0)), LetStmt("b", Bool(v)), WhileStmt(c, body)>> \o tail :
      v \in BOOLEAN, c \in WhileConds, body \in WhileBodies,
      tail \in {<<>>, <<PrintStmt(Number(9))>>} }

\* for loops printing the loop variable
ForInits  == {-1, 0, 2, MaxI32 - 1}
ForBounds == {-2, 0, 3, MaxI32}
ForSteps  == {-2, -1, 0, 1, 2}

ForPrograms ==
  { <<ForStmt("i", a, b, s, Block1(PrintStmt(Variable("i"))))>> :
      a \in ForInits, b \in ForBounds, s \in ForSteps }

\* constructs nested in constructs: an if/else, a while or a for whose body is
\* another construct followed by a print
NestInner ==
  { IfStmt(Bool(TRUE), Block1(ReturnStmt(Number(1))), Block1(ReturnStmt(Number(2)))),
    IfStmt(Bool(FALSE), Block0, NoElse),
    WhileStmt(Bool(FALSE), Block0),
    ForStmt("x", 0, 1, 1, Block0),
    IfStmt(Bool(TRUE), Block1(WhileStmt(Bool(FALSE), Block0)), NoElse),
    ForStmt("x", 0, 1, 1, Block1(IfStmt(Bool(TRUE), Block0, Block0))) }

NestOuter(body) ==
  { IfStmt(Bool(TRUE), body, NoElse),
    WhileStmt(Bool(FALSE), body),
    ForStmt("i", 0, 2, 1, body) }

NestPrograms ==
  UNION { { <<o>> : o \in NestOuter(Block2(c, PrintStmt(Number(7)))) } : c \in NestInner }

\* arithmetic on Number32 and Number64 literals
ArithLits == { Number(-1), Number(5), Number64(5), Number64(-3) }

ArithPrograms ==
  { <<ReturnStmt(Binary(l, op, r))>> : l \in ArithLits, r \in ArithLits,
                                        op \in ArithOps }
  \cup { <<LetStmt("x", Binary(l, op, r)), ReturnStmt(Variable("x"))>> :
            l \in ArithLits, r \in ArithLits, op \in ArithOps }

\* a call of the undeclared f, at the top level and nested
Call == CallStmt("f", <<>>)

CallStmts ==
  { Call,
    Block1(Call),
    Block2(LetStmt("y", Number(1)), Block1(Call)),
    LetStmt("x", Call),
    PrintStmt(Call),
    ReturnStmt(Call),
    Binary(Call, "+", Number(1)),
    Binary(Number(1), "+", Call),
    IfStmt(Call, Block0, NoElse),
    IfStmt(Bool(TRUE), Block1(Call), NoElse),
    IfStmt(Bool(TRUE), Block0, Block1(Call)),
    WhileStmt(Call, Block0),
    WhileStmt(Bool(FALSE), Block1(Call)),
    ForStmt("i", 0, 2, 1, Block1(Call)) }

CallPrograms ==
  { pre \o <<c>> \o tail :
      pre \in {<<>>, <<LetStmt("x", Number(1))>>},
      c \in CallStmts,
      tail \in {<<>>, <<PrintStmt(Number(9))>>} }

\* a for loop inside a block re-binding a name bound outside it
ShadowBlocks ==
  { Block1(ForStmt("i", 0, n, 1, Block0)) : n \in {0, 1} }
  \cup { Block2(ForStmt("i", 0, 1, 1, Block0), ReturnStmt(Variable("i"))),
         Block1(Block1(ForStmt("i", 0, 1, 1, Block0))),
         Block2(LetStmt("y", Number(1)), Block1(ForStmt("i", 3, 1, -1, Block0))) }

ShadowPrograms ==
  { <<LetStmt("i", Number(7)), blk>> \o tail :
      blk \in ShadowBlocks,
      tail \in {<<>>, <<ReturnStmt(Variable("i"))>>, <<LetStmt("i", Number(5))>>} }

\* a function f of each declared return type, declared at the top level or
\* inside a block, then called
ReturnTypes == {"i32", "i64", "Bool", "String", "List", "None"}

FuncBody(ret) ==
  CASE ret = "i32"    -> Block1(ReturnStmt(Number(7)))
    [] ret = "i64"    -> Block1(ReturnStmt(Number64(7)))
    [] ret = "Bool"   -> Block1(ReturnStmt(Bool(TRUE)))
    [] ret = "String" -> Block1(ReturnStmt(String(<<"a">>)))
    [] ret = "List"   -> Block0
    [] OTHER          -> Block1(PrintStmt(Number(3)))

Decl(ret)  == FuncStmt("f", <<>>, ret, FuncBody(ret))
Decl2(ret) == FuncStmt("f", <<"a", "b">>, ret, FuncBody(ret))
Call2 == CallStmt("f", <<Number(1), Number64(2)>>)

FuncCalls ==
  { Call, Block1(Call), ReturnStmt(Call), PrintStmt(Call),
    Block2(LetStmt("y", Number(1)), Call) }

FuncPrograms ==
  { <<d, c>> \o tail :
      d \in {Decl(r) : r \in ReturnTypes} \cup {Block1(Decl(r)) : r \in ReturnTypes},
      c \in FuncCalls,
      tail \in {<<>>, <<ReturnStmt(Variable("f"))>>} }
  \cup { <<LetStmt("f", Number(5)), Decl(r), c>> :
            r \in ReturnTypes, c \in {Call, Block1(Call)} }
  \cup { <<Decl2(r), Call2>> \o tail :
            r \in ReturnTypes, tail \in {<<>>, <<ReturnStmt(Variable("f"))>>} }

\* a name bound, re-bound, then read or re-bound again
AliasLits == { Number(1), Number(2), Number64(2), Bool(TRUE), Bool(FALSE),
               String(<<"a">>), String(<<"b">>) }

AliasReads ==
  { PrintStmt(Variable("x")), ReturnStmt(Variable("x")),
    Binary(Variable("x"), "+", Number(1)), Binary(Variable("x"), "==", Number(2)),
    LetStmt("x", Variable("x")), LetStmt("x", Number(1)) }

AliasPrograms ==
  { <<LetStmt("x", a), LetStmt("x", b), r>> :
      a \in AliasLits, b \in AliasLits, r \in AliasReads }

\* a variable bound, re-bound to another value of its kind, then used as the
\* left operand of a comparison or of an arithmetic operation
ReloadCases ==
  { <<Number(1), Number(2), op, Number(2)>> : op \in {"==", "<", "+", "-"} }
  \cup { <<Number64(1), Number64(2), op, Number(2)>> : op \in {"==", "<", "+", "-"} }
  \cup { <<Bool(TRUE), Bool(FALSE), op, Bool(FALSE)>> : op \in {"==", "!="} }

ReloadPrograms ==
  { <<LetStmt("x", c[1]), LetStmt("x", c[2]),
      ReturnStmt(Binary(Variable("x"), c[3], c[4]))>> : c \in ReloadCases }

\* a for loop over i at the top level, after i was bound to a value of some
\* kind or not at all, and inside a block; the body binds y or nothing
ForVarLoops ==
  { ForStmt("i", 0, 2, 1, body) : body \in {Block0, Block1(LetStmt("y", Number(1)))} }

ForVarTopPrograms ==
  { pre \o <<loop>> \o tail :
      pre \in {<<>>} \cup {<<LetStmt("i", v)>> :
                              v \in {Bool(TRUE), String(<<"a">>), Number(7), Number64(7)}},
      loop \in ForVarLoops,
      tail \in {<<>>, <<ReturnStmt(Variable("i"))>>, <<PrintStmt(Variable("i"))>>} }

ForVarBlockPrograms ==
  { <<Block2(loop, ReturnStmt(Variable("i")))>> \o tail :
      loop \in ForVarLoops, tail \in {<<>>, <<PrintStmt(Number(9))>>} }

\* comparisons of Number32 and Number64 literals and variables
CmpPrograms ==
  { <<ReturnStmt(Binary(l, op, r))>> : l \in ArithLits, r \in ArithLits,
                                        op \in CmpOps }
  \cup { <<LetStmt("x", l), LetStmt("y", r),
           ReturnStmt(Binary(Variable("x"), op, Variable("y")))>> :
            l \in ArithLits, r \in ArithLits, op \in CmpOps }

\* == and != on two String literals
StrCmpPrograms ==
  { <<ReturnStmt(Binary(String(a), op, String(b)))>> :
      a \in Strs, b \in Strs, op \in {"==", "!="} }

\* a binary operation on literals of two different kinds among String,
\* Number and Bool
KindLits == { String(<<"a">>), Number(1), Bool(TRUE) }

KindPrograms ==
  { <<Binary(p[1], op, p[2])>> :
      p \in {q \in KindLits \X KindLits : q[1] # q[2]},
      op \in {"+", "-", "==", "<"} }

\* list literals of one to three elements, as a statement, bound and printed
ListItems ==
  { <<Number(1)>>, <<Number(1), Number(2)>>, <<Number64(1), Number64(2)>>,
    <<Bool(TRUE), Bool(FALSE), Bool(TRUE)>>, <<String(<<"a">>)>> }

ListPrograms ==
  { <<c>> \o tail :
      c \in UNION { {List(v), LetStmt("x", List(v)), PrintStmt(List(v)),
                     Block1(List(v))} : v \in ListItems },
      tail \in {<<>>, <<PrintStmt(Number(9))>>} }

\* programs whose session end is taken in every environment
EmitPrograms ==
  { <<PrintStmt(Number(n))>> : n \in {3, 4} }

Programs ==
  EmitPrograms \cup ScopePrograms \cup RebindPrograms \cup ConcatPrograms \cup IfPrograms
  \cup WhilePrograms \cup ForPrograms \cup ArithPrograms \cup CallPrograms
  \cup ShadowPrograms \cup FuncPrograms \cup AliasPrograms \cup CmpPrograms
  \cup StrCmpPrograms \cup KindPrograms \cup ListPrograms \cup NestPrograms
  \cup ReloadPrograms \cup ForVarTopPrograms \cup ForVarBlockPrograms

(***************************************************************************)
(* The parser front end (main.rs).  GptQLParser::parse is external: its    *)
(* result is the input, an error value or a tree of pairs.  A pair has a   *)
(* rule, its text (str; for a number the sequence of its digits) and inner *)
(* pairs.                                                                  *)
(***************************************************************************)
Pair(rule, str, digits, inner) ==
  [rule |-> rule, str |-> str, digits |-> digits, inner |-> inner]
NoPair == Pair("none", "", <<>>, <<>>)

NoInput == [ok |-> FALSE, err |-> "", pair |-> NoPair]
Rejected(e) == [ok |-> FALSE, err |-> e, pair |-> NoPair]
Accepted(p) == [ok |-> TRUE, err |-> "", pair |-> p]

NotParsed == [res |-> "none", err |-> ""]
Panic     == [res |-> "Panic", err |-> ""]

Comparison(l, op, r) == [tag |-> "Comparison", lhs |-> l, op |-> op, rhs |-> r]

\* str::parse::<i32> on a sequence of decimal digits: the number, or
\* Overflow (the Err that unwrap panics on) when it does not fit 32 bits
Overflow == -1

RECURSIVE ParseI32(_, _)
ParseI32(digits, acc) ==
  IF digits = <<>> THEN acc
  ELSE IF acc > (MaxI32 - Head(digits)) \div 10 THEN Overflow
  ELSE ParseI32(Tail(digits), acc * 10 + Head(digits))

\* parse_expression: the Expression of a pair, or Panic where an unwrap or
\* unreachable!() is hit
RECURSIVE ParseExpression(_)
ParseExpression(pair) ==
  IF pair.inner = <<>> THEN Panic
  ELSE
    LET left_pair == pair.inner[1]
        left ==
          CASE left_pair.rule \in {"number", "digits"} ->
                 IF ParseI32(left_pair.digits, 0) = Overflow THEN Panic
                 ELSE Number(ParseI32(left_pair.digits, 0))
            [] left_pair.rule = "string" -> String(left_pair.str)
            [] left_pair.rule = "primary" ->
                 IF left_pair.str = "true" THEN Bool(TRUE)
                 ELSE IF left_pair.str = "false" THEN Bool(FALSE)
                 ELSE Panic
            [] OTHER -> ParseExpression(left_pair)
    IN  IF left = Panic THEN Panic
        ELSE IF Len(pair.inner) = 1 THEN left
        ELSE IF Len(pair.inner) = 2 THEN Panic
        ELSE LET op_str == pair.inner[2].str
                 right  == ParseExpression(pair.inner[3])
             IN  IF right = Panic THEN Panic
                 ELSE IF op_str = "==" THEN Comparison(left, op_str, right)
                 ELSE Binary(left, op_str, right)

\* parse_program: every inner pair of the program pair is parsed
ParseProgram(pair) ==
  IF \E k \in 1..Len(pair.inner) : ParseExpression(pair.inner[k]) = Panic
    THEN Panic
  ELSE [res |-> "Ok", err |-> ""]

\* parse_function_program
ParseFunctionProgram(in) ==
  IF in.ok THEN ParseProgram(in.pair)
  ELSE [res |-> "Err", err |-> in.err]

\* the results of GptQLParser::parse: the errors of rejected inputs, and the
\* trees of literals, == comparisons and binary operations of them
Digits == { <<5, 5, 5>>, <<0>>, <<4, 5>>,
            <<2, 1, 4, 7, 4, 8, 3, 6, 4, 7>>, <<2, 1, 4, 7, 4, 8, 3, 6, 4, 8>>,
            <<9, 9, 9, 9, 9, 9, 9, 9, 9, 9, 9>> }

Leaves ==
  { Pair("number", "", d, <<>>) : d \in Digits }
  \cup { Pair("string", s, <<>>, <<>>) : s \in {"hello", ""} }
  \cup { Pair("primary", b, <<>>, <<>>) : b \in {"true", "false"} }

Term(leaf) == Pair("term", "", <<>>, <<leaf>>)

Stmts ==
  { Pair("stmt", "", <<>>, <<l>>) : l \in Leaves }
  \cup { Pair("stmt", "", <<>>, <<l, Pair("op", o, <<>>, <<>>), Term(r)>>) :
           l \in Leaves, r \in Leaves, o \in {"==", "+"} }

ParseErrors == {"unexpected *", "expected stmt", "unexpected end of input"}

ParseResults ==
  { Rejected(e) : e \in ParseErrors }
  \cup { Accepted(Pair("program", "", <<>>, <<s>>)) : s \in Stmts }

Init ==
  /\ prog \in Programs
  /\ idx = 1
  /\ phase = "lowering"
  /\ st = InitState
  /\ ex = IdleExec
  /\ env \in (IF prog \in EmitPrograms THEN Envs ELSE {DefaultEnv})
  /\ sess = NoSession
  /\ rsrc = NewResources
  /\ input = NoInput
  /\ parsed = NotParsed

Next == LowerStmt \/ SessionEnd \/ ExecStep \/ SessionDispose

Spec == Init /\ [][Next]_vars

\* for loops that run to their end or for ever: small loops in both
\* directions, and loops by a quarter of the 32-bit range, whose variable
\* wraps around.  The bodies are empty: they do not assign the loop variable
QuarterStep == MaxI32 \div 2 + 1

LiveLoops ==
  { <<a, b, s>> : a \in {0, 1, 2}, b \in {0, 3}, s \in {-2, -1, 1, 2} }
  \cup { <<a, b, s>> : a \in {0, 1, 2, MaxI32 - 1}, b \in {3, MaxI32},
                       s \in {QuarterStep, -QuarterStep} }

LivePrograms == { <<ForStmt("i", l[1], l[2], l[3], Block0)>> : l \in LiveLoops }

LiveInit ==
  /\ prog \in LivePrograms
  /\ idx = 1
  /\ phase = "lowering"
  /\ st = InitState
  /\ ex = IdleExec
  /\ env = DefaultEnv
  /\ sess = NoSession
  /\ rsrc = NewResources
  /\ input = NoInput
  /\ parsed = NotParsed

\* the execution without the step and visit counts that observe it: a block
\* is visited or not
Uncounted(e) ==
  [e EXCEPT !.steps = 0,
            !.hits = [k \in DOMAIN e.hits |-> IF e.hits[k] > 0 THEN 1 ELSE 0]]

\* one instruction of "main", run for as long as it takes
LiveExecStep ==
  /\ phase = "running"
  /\ ex.status = "running"
  /\ ex' = Uncounted(StepExec(st, ex))
  /\ rsrc' = IF env.engine THEN Use(rsrc, "engine") ELSE rsrc
  /\ UNCHANGED <<prog, idx, phase, st, env, sess, input, parsed>>

LiveNext == LowerStmt \/ SessionEnd \/ LiveExecStep \/ SessionDispose

\* main_func() is an ordinary call: once "main" is entered the processor goes
\* on executing its instructions until it returns
LiveSpec == LiveInit /\ [][LiveNext]_vars /\ WF_vars(LiveExecStep)

\* the front end alone: one parse result, handed to parse_function_program
ParseInit ==
  /\ prog = <<>>
  /\ idx = 1
  /\ phase = "parsing"
  /\ st = InitState
  /\ ex = IdleExec
  /\ env = DefaultEnv
  /\ sess = NoSession
  /\ rsrc = NewResources
  /\ input \in ParseResults
  /\ parsed = NotParsed

Parse ==
  /\ phase = "parsing"
  /\ parsed = NotParsed
  /\ parsed' = ParseFunctionProgram(input)
  /\ UNCHANGED <<prog, idx, phase, st, ex, env, sess, rsrc, input>>

ParseNext == Parse

ParseSpec == ParseInit /\ [][ParseNext]_vars

(***************************************************************************)
(* Properties.                                                             *)
(***************************************************************************)
Lowered(k) == idx > k            \* the first k statements are lowered
Ended == phase = "running"       \* session end was reached
Returned == Ended /\ ex.status = "returned"
Lookup(name) == CacheGet(st.var_cache, name)

TerminatorsOf(code) == {k \in 1..Len(code) : IsTerminator(code[k])}

\* one terminator, and it is the last instruction
WellFormedBlock(blk) == TerminatorsOf(blk.ins) = {Len(blk.ins)} /\ Len(blk.ins) > 0

\* C1: after lowering any program and appending the session-end void return,
\* every emitted block holds exactly one terminator, as its last instruction.
C1_EveryBlockOneTerminator ==
  Ended => \A k \in 1..Len(st.blocks) : WellFormedBlock(st.blocks[k])

\* C2: a name first bound by a let inside a block is absent once the block
\* has exited and a later read fails with UnknownIdentifier; a name bound
\* before the block and re-assigned inside it is still bound after the block,
\* and a read after the block observes the value assigned inside.
C2_InnerLetGone ==
  \A v \in {1, 2} :
    (Len(prog) >= 2 /\ prog[1] = Block1(LetStmt("y", Number(v)))) =>
      /\ Lowered(1) => Lookup("y") = NoValue
      /\ prog[2] = ReturnStmt(Variable("y")) =>
           /\ ~Lowered(2)
           /\ phase = "aborted" => st.err = "UnknownIdentifier"

C2_OuterLetMutated ==
  \A v \in {1, 2}, w \in {1, 2, 3} :
    (Len(prog) = 3 /\ prog[1] = LetStmt("x", Number(v))
       /\ prog[2] = Block1(LetStmt("x", Number(w)))
       /\ prog[3] = ReturnStmt(Variable("x"))) =>
      /\ Lowered(2) => Lookup("x") # NoValue
      /\ phase # "aborted"
      /\ Returned => ex.retval = Const(w, 32)

C2_BlockScoping == C2_InnerLetGone /\ C2_OuterLetMutated

\* C3: re-binding a String name to a Number fails with KindMismatch and aborts
\* the compile; re-binding it to another String succeeds and every later read
\* of the name (lookup, print, concatenation, equality) observes the new
\* content.
C3_RebindString ==
  \A a \in {<<"a">>, <<"b">>} :
    (Len(prog) >= 2 /\ prog[1] = LetStmt("s", String(a))) =>
      /\ prog[2] = LetStmt("s", Number(1)) =>
           /\ ~Lowered(2)
           /\ phase = "aborted" => (idx = 2 /\ st.err = "KindMismatch")
      /\ \A b \in {<<"a">>, <<"b">>} :
           prog[2] = LetStmt("s", String(b)) =>
             /\ phase # "aborted"
             /\ Lowered(2) => Lookup("s").str = b
             /\ (Len(prog) = 3 /\ prog[3].tag = "Binary" /\ Lowered(3)) =>
                  IF prog[3].op = "+" THEN st.val.str = b
                  ELSE st.val.val = Const(IF b = <<"b">> THEN 1 ELSE 0, 1)
             /\ (Len(prog) = 3 /\ prog[3].tag = "ReturnStmt" /\ Returned) =>
                  ex.retval.v = (IF b = <<"b">> THEN 1 ELSE 0)
             /\ (Len(prog) = 3 /\ prog[3].tag = "Print" /\ Returned) =>
                  ex.out = <<[v |-> 0, s |-> b]>>

BlocksNamed(name) == {k \in 1..Len(st.blocks) : st.blocks[k].name = name}

RECURSIVE SumHits(_)
SumHits(S) ==
  IF S = {} THEN 0
  ELSE LET k == CHOOSE k \in S : TRUE IN ex.hits[k] + SumHits(S \ {k})

ReturningBranches == {b \in Branches : b # Block0 /\ b.exprs[Len(b.exprs)].tag = "ReturnStmt"}

\* an if / else, both branches ending in a return, is the first statement
IfBothReturn ==
  /\ prog[1].tag = "IfStmt"
  /\ prog[1].then \in ReturningBranches
  /\ prog[1].else \in ReturningBranches

\* C4: for an if / else whose branches both end in a return, every execution
\* runs exactly one of the two branches and executes exactly one return
\* instruction; the other branch's return and the merge block never execute.
C4_ExactlyOneReturn ==
  (IfBothReturn /\ Ended) =>
    /\ SumHits(BlocksNamed("merge_block")) = 0
    /\ SumHits(BlocksNamed("then_block") \cup BlocksNamed("else_block")) <= 1
    /\ ex.status \in {"running", "returned"}
    /\ ex.status = "running" =>
         (ex.rets = 0 /\ ex.steps < MaxSteps)
    /\ ex.status = "returned" =>
         /\ ex.rets = 1
         /\ SumHits(BlocksNamed("then_block")) + SumHits(BlocksNamed("else_block")) = 1
         /\ st.blocks[ex.b].ins[ex.i].op = "ret"
         /\ ex.b \in BlocksNamed("then_block") \cup BlocksNamed("else_block")

C4_Witness ==
  /\ IfBothReturn /\ Returned
  /\ prog[1].cond = Binary(Number(2), "<", Number(1))
  /\ SumHits(BlocksNamed("else_block")) = 1
  /\ ex.retval = Const(2, 32)

\* a while loop is the third statement, lowered from the entry block
WhileLowered == Len(prog) >= 3 /\ prog[3].tag = "WhileStmt" /\ Lowered(3)

MainIns == st.blocks[MainBlock].ins
CountOp(code, op) == Cardinality({k \in 1..Len(code) : code[k].op = op})
BranchesTo(b) ==
  {k \in 1..Len(st.blocks) :
     \E j \in 1..Len(st.blocks[k].ins) :
        LET i == st.blocks[k].ins[j]
        IN  (i.op = "br" /\ i.t1 = b) \/ (i.op = "condbr" /\ b \in {i.t1, i.t2})}

\* the entry block ends: load of the condition's cell, store into the scratch
\* cell, branch to loop_cond
WhilePreBlockShape ==
  LET n == Len(MainIns)
  IN  /\ n >= 3
      /\ MainIns[n].op = "br"
      /\ MainIns[n - 1].op = "store"
      /\ MainIns[n - 2].op = "load"
      /\ MainIns[n - 1].a = Reg(MainIns[n - 2].dst, 1)

\* C5: the condition of a while loop is lowered once, in the block before the
\* loop; loop_cond holds only a reload of that value's cell and the conditional
\* branch to body or exit, so the condition's instructions run once however
\* many iterations execute.
C5_ConditionLoweredOnce ==
  WhileLowered =>
    /\ WhilePreBlockShape
    /\ LET n     == Len(MainIns)
           condB == MainIns[n].t1
           c     == st.blocks[condB].ins
       IN  /\ BlocksNamed("loop_cond") = {condB}
           /\ Len(c) = 2
           /\ c[1].op = "load" /\ c[1].a = MainIns[n - 2].a
           /\ c[2].op = "condbr" /\ c[2].a = Reg(c[1].dst, 1)
           /\ st.blocks[c[2].t1].name = "loop_body"
           /\ st.blocks[c[2].t2].name = "loop_exit"
    /\ CountOp(MainIns, "icmp") = (IF prog[3].cond.tag = "Binary" THEN 1 ELSE 0)
    /\ BranchesTo(MainBlock) = {}
    /\ Ended => ex.hits[MainBlock] = 1

C5_Witness ==
  /\ WhileLowered /\ Returned
  /\ prog[3].cond = Variable("b")
  /\ \E k \in BlocksNamed("loop_cond") : ex.hits[k] = 3
  /\ \E k \in BlocksNamed("loop_body") : ex.hits[k] = 2

\* the values a loop from a to b by s visits: a, a+s, ... while before the bound
RECURSIVE ForVisits(_, _, _)
ForVisits(a, b, s) ==
  IF (s > 0 /\ a < b) \/ (s < 0 /\ a > b)
  THEN IF (s > 0 /\ a > MaxI32 - s) \/ (s < 0 /\ a < MinI32 - s) THEN <<a>>
       ELSE <<a>> \o ForVisits(a + s, b, s)
  ELSE <<>>

PrintedNumbers == [k \in 1..Len(ex.out) |-> ex.out[k].v]

\* C6: a for loop with init a, bound b and step s lowers for every 32-bit a
\* and b, negative bounds included, and its execution runs the body once for
\* each of a, a+s, a+2s, ... before the bound, in that order.
C6_ForVisitsEachValue ==
  (prog \in ForPrograms /\ prog[1].incr # 0) =>
    /\ phase # "aborted"
    /\ Returned => PrintedNumbers = ForVisits(prog[1].init, prog[1].length, prog[1].incr)

\* x is bound to an arithmetic operation on one Number and one Number64 literal
MixedWidthLet ==
  /\ prog \in ArithPrograms
  /\ prog[1].tag = "LetStmt"
  /\ {prog[1].e.lhs.tag, prog[1].e.rhs.tag} = {"Number", "Number64"}
  /\ Lowered(1)

\* the ideal result in unbounded integers (the literals are small)
IdealArith(op, a, b) ==
  CASE op = "+" -> a + b
    [] op = "-" -> a - b
    [] op = "*" -> a * b
    [] OTHER    -> SDiv(a, b)

\* C7: arithmetic on one Number32 and one Number64 operand, in either order,
\* is carried out in 64 bits on the sign-extended 32-bit operand and its
\* result is a Number64 value.
C7_MixedWidthIsNumber64 ==
  MixedWidthLet =>
    /\ Lookup("x").kind = "Number64"
    /\ Returned =>
         ex.retval = Const(IdealArith(prog[1].e.op, prog[1].e.lhs.n, prog[1].e.rhs.n), 64)

NotQuote(c) == c # Quote

\* the last statement adds two strings and has been lowered
ConcatLowered == prog \in ConcatPrograms /\ Lowered(Len(prog))

ConcatLeft ==
  IF prog[1].tag = "LetStmt" THEN prog[1].e.s ELSE prog[1].lhs.s
ConcatRight == prog[Len(prog)].rhs.s

\* C8: adding two strings yields a new String constant holding the left
\* content followed by the right content with every double quote removed from
\* both; the operand values are left unchanged.
C8_ConcatStripsQuotes ==
  ConcatLowered =>
    /\ st.val.kind = "String"
    /\ st.val.str = SelectSeq(ConcatLeft \o ConcatRight, NotQuote)
    /\ prog[1].tag = "LetStmt" =>
         /\ Lookup("s").kind = "String"
         /\ Lookup("s").str = ConcatLeft
         /\ Lookup("s").ptr # st.val.ptr

C8_Witness ==
  /\ ConcatLowered
  /\ prog[1].tag = "LetStmt"
  /\ ConcatLeft = <<"a", Quote>>
  /\ ConcatRight = <<"b", Quote, "c">>
  /\ st.val.str = <<"a", "b", "c">>
  /\ Lookup("s").str = <<"a", Quote>>

\* the position of the statement holding the call of the undeclared f
CallPos == IF prog[1] \in CallStmts THEN 1 ELSE 2

CallEmitted ==
  \E k \in 1..Len(st.blocks) : CountOp(st.blocks[k].ins, "call") > 0

\* C9: lowering a call of a name absent from the function table fails with
\* UnknownIdentifier, emits no call instruction, and the failure leaves
\* lowering so that session end is never reached and nothing is executed.
C9_UnknownCallAborts ==
  prog \in CallPrograms =>
    /\ ~CallEmitted
    /\ idx <= CallPos
    /\ phase \in {"lowering", "aborted"}
    /\ ex = IdleExec
    /\ phase = "aborted" => (idx = CallPos /\ st.err = "UnknownIdentifier")
    /\ phase = "lowering" => st.err = OK

C9_Witness ==
  /\ prog \in CallPrograms
  /\ Len(prog) = 3
  /\ prog[2] = IfStmt(Bool(TRUE), Block0, Block1(Call))
  /\ phase = "aborted"
  /\ idx = 2
  /\ st.err = "UnknownIdentifier"

\* i is bound at depth 0, then a block re-binds it (a for loop) and has exited
ShadowExited == prog \in ShadowPrograms /\ idx >= 3

RetsOf(blk) == {blk.ins[j].a : j \in {j \in 1..Len(blk.ins) : blk.ins[j].op = "ret"}}
AllRets == UNION {RetsOf(st.blocks[k]) : k \in 1..Len(st.blocks)}

\* C10: the variable table holds one binding per name: set overwrites the
\* binding whatever depth made it, and the exit of the block at depth d removes
\* every name recorded under d, also one first bound at a shallower depth; the
\* earlier binding is not restored and a later lookup returns empty.
C10_ShadowedNameEvicted ==
  /\ (prog \in ShadowPrograms /\ Lowered(2) /\ prog[2].exprs[Len(prog[2].exprs)].tag = "ReturnStmt")
       => AllRets = {Const(0, 32)}
  /\ ShadowExited =>
       /\ \A d \in 1..MaxDepth : st.var_cache.local[d] = <<>>
       /\ (idx = 3 => Lookup("i") = NoValue)
       /\ (phase = "aborted" =>
             /\ prog[3] = ReturnStmt(Variable("i"))
             /\ st.err = "UnknownIdentifier")
       /\ (Len(prog) = 3 /\ prog[3].tag = "ReturnStmt") => phase # "running"
       /\ Lowered(3) =>
             /\ Lookup("i").val = Const(5, 32)
             /\ Lookup("i").ptr > 1

C10_Witness ==
  /\ ShadowExited
  /\ prog[2] = Block1(Block1(ForStmt("i", 0, 1, 1, Block0)))
  /\ Len(prog) = 3
  /\ prog[3] = ReturnStmt(Variable("i"))
  /\ phase = "aborted"
  /\ Lookup("i") = NoValue

\* f was declared inside a block, which has exited
DeclaredInBlock ==
  /\ prog \in FuncPrograms
  /\ prog[1] \in {Block1(Decl(r)) : r \in ReturnTypes}
  /\ Lowered(1)

\* C11: the function table is evicted by depth like the variable table: once
\* the block that declared f has exited, the function table no longer binds
\* f, and the call of f that follows is not lowered: it aborts with
\* UnknownIdentifier.
C11_FunctionEvictedAtBlockExit ==
  DeclaredInBlock =>
    /\ CacheGet(st.func_cache, "f") = NoValue
    /\ st.func_cache.local[1] = <<>>
    /\ ~Lowered(2)
    /\ phase = "aborted" => st.err = "UnknownIdentifier"

\* e only reads bindings and assigns through them: literals, variables,
\* operations on them, print, return, and let of a name that is bound
RECURSIVE ReadsOnly(_, _)
ReadsOnly(e, cache) ==
  CASE e.tag \in {"Number", "Number64", "String", "Bool", "Variable"} -> TRUE
    [] e.tag = "Binary" -> ReadsOnly(e.lhs, cache) /\ ReadsOnly(e.rhs, cache)
    [] e.tag \in {"Print", "ReturnStmt"} -> ReadsOnly(e.e, cache)
    [] e.tag = "LetStmt" ->
         CacheGet(cache, e.name) # NoValue /\ ReadsOnly(e.e, cache)
    [] OTHER -> FALSE

\* the store instructions of "main" into the cell p
StoresTo(p) ==
  {j \in 1..Len(MainIns) : MainIns[j].op = "store" /\ MainIns[j].dst = p}

\* C12: a value obtained from the variable table is a copy: lowering a
\* statement that only reads bindings and assigns through what it read (a let
\* of a bound name, print, return, an operation on variables) leaves the
\* table, map and depth index, exactly as the last set left it, whether the
\* statement is lowered or aborts.
C12_GetReturnsCopy ==
  [][ (/\ phase = "lowering"
       /\ idx <= Len(prog)
       /\ ReadsOnly(prog[idx], st.var_cache))
      => st'.var_cache = st.var_cache ]_vars

\* x was bound to 1, then assigned 2 through the copy that get returned: its
\* cell was stored to twice and the table still holds the binding of 1
C12_Witness ==
  /\ prog \in AliasPrograms
  /\ prog[1] = LetStmt("x", Number(1))
  /\ prog[2] = LetStmt("x", Number(2))
  /\ idx = 3
  /\ Lookup("x").val = Const(1, 32)
  /\ Cardinality(StoresTo(Lookup("x").ptr)) = 2

\* the statement being lowered is lowered successfully by this step
LowersOK(e) ==
  /\ phase = "lowering"
  /\ idx <= Len(prog)
  /\ prog[idx] = e
  /\ phase' = "lowering"

\* C13: a successful call of the declared f at depth d sets f in the variable
\* table to the call's result, over any variable f, and records f under d;
\* the call node yields that same result; the function table is untouched.
\* At depth 0 the binding is there after the statement; made inside a block
\* (depth 1) it is evicted with the block, also when f was a variable bound
\* at depth 0, and the block yields the call's result.
C13_CallBindsResultUnderOwnName ==
  [][ /\ (prog \in FuncPrograms /\ (LowersOK(Call) \/ LowersOK(PrintStmt(Call)) \/ LowersOK(Call2)))
         => /\ st'.var_cache.map =
                 [st.var_cache.map EXCEPT !["f"] = st'.val]
            /\ st'.var_cache.local =
                 [st.var_cache.local EXCEPT ![0] = Append(@, "f")]
            /\ st'.val \notin {NoValue, st.var_cache.map["f"]}
            /\ st'.func_cache = st.func_cache
            /\ st'.func_cache.map["f"].kind = "Func"
      /\ (prog \in FuncPrograms /\ LowersOK(Block1(Call)))
         => /\ st'.var_cache.map =
                 [st.var_cache.map EXCEPT !["f"] = NoValue]
            /\ st'.var_cache.local = st.var_cache.local
            /\ st'.val # NoValue
            /\ st'.func_cache = st.func_cache ]_vars

\* f was a variable, then a function of return type i32 was declared and
\* called at depth 0: the variable table binds f to the call's result
C13_Witness ==
  /\ prog = <<LetStmt("f", Number(5)), Decl("i32"), Call>>
  /\ idx = 4
  /\ Lookup("f") = st.val
  /\ Lookup("f").val.t = "r"
  /\ st.var_cache.local[0] = <<"f", "f">>
  /\ CountOp(MainIns, "call") = 1

\* the kind the spec gives to a call of a function of declared return type ret
DeclaredKind(ret) ==
  CASE ret = "i32"  -> "Number"
    [] ret = "i64"  -> "Number64"
    [] ret = "Bool" -> "Bool"
    [] OTHER        -> "Void"

CallsOf(code) == {k \in 1..Len(code) : code[k].op = "call"}

\* f is declared with return type r by the first statement and the second,
\* a call of f, has been lowered or has aborted
CalledAs(r) ==
  /\ prog \in FuncPrograms
  /\ prog[1] \in {Decl(r), Decl2(r)}
  /\ prog[2] \in {Call, Call2}
  /\ \/ idx = 3 /\ phase = "lowering"
     \/ idx = 2 /\ phase = "aborted"

\* C14: a call lowers its arguments in call order, emits one backend call and
\* yields a value of the declared return kind: Number for i32, Number64 for
\* i64, Bool for Bool, Void for none; a declared String or List return type
\* aborts with UnsupportedReturnKind and yields no value.
C14_CallYieldsDeclaredKind ==
  \A r \in ReturnTypes :
    CalledAs(r) =>
      /\ Cardinality(CallsOf(MainIns)) = 1
      /\ \A k \in CallsOf(MainIns) :
           MainIns[k].s = (IF prog[2] = Call2 THEN <<Const(1, 32), Const(2, 64)>>
                           ELSE <<>>)
      /\ IF r \in {"String", "List"}
           THEN phase = "aborted" /\ st.err = "UnsupportedReturnKind" /\ st.val = NoValue
         ELSE phase = "lowering" /\ st.val.kind = DeclaredKind(r)

\* the operands and the operator of a program of CmpPrograms
CmpLeft  == IF Len(prog) = 1 THEN prog[1].e.lhs ELSE prog[1].e
CmpRight == IF Len(prog) = 1 THEN prog[1].e.rhs ELSE prog[2].e
CmpOp    == prog[Len(prog)].e.op

IdealCmp(op, a, b) ==
  CASE op = "==" -> a = b [] op = "!=" -> a # b [] op = "<" -> a < b
    [] op = "<=" -> a <= b [] op = ">" -> a > b [] op = ">=" -> a >= b

SExtsOf(code) == {k \in 1..Len(code) : code[k].op = "sext"}

\* C15: for every comparison operator and every pairing of Number32 and
\* Number64 operands the comparison is lowered (the compile does not abort):
\* one icmp is emitted, with one sign extension when the widths differ and
\* none otherwise, and the Bool it yields is the signed comparison of the two
\* numbers.
C15_ComparisonOfEveryWidthPairing ==
  prog \in CmpPrograms =>
    /\ phase # "aborted"
    /\ Lowered(Len(prog)) =>
         /\ CountOp(MainIns, "icmp") = 1
         /\ Cardinality(SExtsOf(MainIns)) =
              (IF CmpLeft.tag = CmpRight.tag THEN 0 ELSE 1)
    /\ Returned =>
         ex.retval = Const(IF IdealCmp(CmpOp, CmpLeft.n, CmpRight.n) THEN 1 ELSE 0, 1)

\* the String value a literal of content c lowers to, as eqeq and ne see it
StrValue(c) == Value("String", StrConst, 0, c)

\* C16: == on two strings returns true exactly when their contents are equal
\* and != returns true exactly when they differ: the Bool the lowered
\* comparison returns is the one StringType::eqeq, for ==, and StringType::ne,
\* for !=, compute on the same contents.
C16_StringEqualityIsContentComparison ==
  (prog \in StrCmpPrograms /\ Returned) =>
    LET l == StrValue(prog[1].e.lhs.s)
        r == StrValue(prog[1].e.rhs.s)
    IN  /\ prog[1].e.op = "==" =>
             ex.retval = Const(IF StringEqEq(l, r) THEN 1 ELSE 0, 1)
        /\ prog[1].e.op = "!=" =>
             ex.retval = Const(IF StringNe(l, r) THEN 1 ELSE 0, 1)

\* C17: a binary arithmetic or comparison operation on operands of
\* incompatible kinds (String with Number, Bool with String, Bool with Number,
\* in either order) is never lowered: the compile aborts with KindMismatch,
\* no arithmetic or compare instruction is emitted and no value is produced.
C17_IncompatibleKindsAbort ==
  prog \in KindPrograms =>
    /\ ~Lowered(1)
    /\ CountOp(MainIns, "arith") = 0
    /\ CountOp(MainIns, "icmp") = 0
    /\ phase = "aborted" => (st.err = "KindMismatch" /\ st.val = NoValue)

\* C18: ahead of time, when the external assembler/linker cannot be started
\* or exits unsuccessfully, session end returns an error: no executable is
\* run and no captured output is returned.
C18_BackendFailureAborts ==
  (~env.engine /\ env.clang \in {"absent", "fails"} /\ sess # NoSession) =>
    /\ sess.result = "err"
    /\ sess.ran = "none"
    /\ ex = IdleExec

\* C19: a list literal of n >= 1 elements is lowered (the compile does not
\* abort) and yields a value of kind List.
C19_ListLiteralLowers ==
  prog \in ListPrograms =>
    /\ phase # "aborted"
    /\ idx = 2 => st.val.kind = "List"

\* C20: parse_function_program returns Ok(()) exactly when the parser
\* accepted the input, and when the parser rejected it returns the parser's
\* own error value unchanged.
C20_OkExactlyWhenAccepted ==
  parsed # NotParsed =>
    /\ input.ok <=> parsed.res = "Ok"
    /\ ~input.ok => parsed = [res |-> "Err", err |-> input.err]

\* what the syntax tree says of the blocks a construct is lowered to: the
\* number of blocks it appends, the block lowering stands in after it, and
\* whether it yields the Return marker
RECURSIVE BlocksOf(_), BlocksOfSeq(_), EndBlock(_, _, _), EndBlockSeq(_, _, _),
          YieldsReturn(_)
BlocksOf(e) ==
  CASE e.tag = "IfStmt" ->
         3 + BlocksOf(e.then) + (IF e.else = NoElse THEN 0 ELSE BlocksOf(e.else))
    [] e.tag \in {"WhileStmt", "ForStmt"} -> 3 + BlocksOf(e.body)
    [] e.tag = "BlockStmt" -> BlocksOfSeq(e.exprs)
    [] OTHER -> 0

BlocksOfSeq(es) ==
  IF es = <<>> THEN 0 ELSE BlocksOf(Head(es)) + BlocksOfSeq(Tail(es))

\* EndBlock(e, cur, n): lowering of e starts in block cur when n blocks exist
EndBlock(e, cur, n) ==
  CASE e.tag = "IfStmt" -> n + 2
    [] e.tag \in {"WhileStmt", "ForStmt"} -> n + 3
    [] e.tag = "BlockStmt" -> EndBlockSeq(e.exprs, cur, n)
    [] OTHER -> cur

EndBlockSeq(es, cur, n) ==
  IF es = <<>> THEN cur
  ELSE EndBlockSeq(Tail(es), EndBlock(Head(es), cur, n), n + BlocksOf(Head(es)))

YieldsReturn(e) ==
  CASE e.tag = "ReturnStmt" -> TRUE
    [] e.tag = "BlockStmt" ->
         e.exprs # <<>> /\ YieldsReturn(e.exprs[Len(e.exprs)])
    [] e.tag = "IfStmt" ->
         YieldsReturn(e.then) \/ (e.else # NoElse /\ YieldsReturn(e.else))
    [] OTHER -> FALSE

\* the if/else of a program of IfPrograms, lowered from "main": its blocks
IfThenB  == MainBlock + 1
IfMergeB == MainBlock + 2
IfElseB  == MainBlock + 3 + BlocksOf(prog[1].then)
IfThenEnd == EndBlock(prog[1].then, IfThenB, IfMergeB)
IfElseEnd == EndBlock(prog[1].else, IfElseB, IfElseB)

BrsTo(code, b) == {k \in 1..Len(code) : code[k].op = "br" /\ code[k].t1 = b}

\* the code of block b ends in a branch to merge unless the branch it closes
\* yields the Return marker, and then it holds no branch to merge
ClosedTowardsMerge(b, branch) ==
  LET code == st.blocks[b].ins
  IN  IF YieldsReturn(branch) THEN BrsTo(code, IfMergeB) = {}
      ELSE BrsTo(code, IfMergeB) = {Len(code)} /\ code # <<>>

\* C21: an if/else is wired so: the entry block, where the condition was
\* lowered, ends in the one conditional branch, true to then and false to
\* else; the end of the then code branches to merge unless then yielded the
\* Return marker, and then no branch is emitted; else likewise; a missing
\* else is an empty block that branches straight to merge.
C21_IfElseWiring ==
  (prog \in IfPrograms /\ idx = 2 /\ phase = "lowering") =>
    /\ st.blocks[IfThenB].name = "then_block"
    /\ st.blocks[IfMergeB].name = "merge_block"
    /\ st.blocks[IfElseB].name = "else_block"
    /\ CountOp(MainIns, "condbr") = 1
    /\ LET last == MainIns[Len(MainIns)]
       IN  last.op = "condbr" /\ last.t1 = IfThenB /\ last.t2 = IfElseB
    /\ ClosedTowardsMerge(IfThenEnd, prog[1].then)
    /\ IF prog[1].else = NoElse
         THEN CountOp(st.blocks[IfElseB].ins, "br") = 1
              /\ Len(st.blocks[IfElseB].ins) = 1
              /\ BrsTo(st.blocks[IfElseB].ins, IfMergeB) = {1}
       ELSE ClosedTowardsMerge(IfElseEnd, prog[1].else)

\* then returns and else prints: no branch leaves then_block, else_block ends
\* in the branch to merge
C21_Witness ==
  /\ prog \in IfPrograms
  /\ idx = 2
  /\ phase = "lowering"
  /\ prog[1].then = Block1(ReturnStmt(Number(1)))
  /\ prog[1].else = Block1(PrintStmt(Number(7)))
  /\ CountOp(st.blocks[IfThenB].ins, "br") = 0
  /\ CountOp(st.blocks[IfThenB].ins, "ret") = 1
  /\ CountOp(st.blocks[IfElseB].ins, "br") = 1
  /\ MainIns[Len(MainIns)].op = "condbr"

\* the program is one statement and lowering it yielded the Return marker
\* (st.val is still the statement's value while the emitted code runs)
OnlyStatementYieldedReturn ==
  /\ Len(prog) = 1
  /\ prog[1].tag \in {"ReturnStmt", "BlockStmt", "IfStmt"}
  /\ Ended
  /\ st.val.kind = "Return"

\* C22: when lowering a return, a block or an if/else yields the Return
\* marker, every execution of the code emitted for it ends in a return
\* instruction of that code: none reaches the merge block of the if/else, and
\* none goes on to what follows the construct (here the void return appended
\* at session end) or runs off the end of a block.
C22_ReturnMarkerMeansTermination ==
  OnlyStatementYieldedReturn =>
    /\ ex.status # "fell_off"
    /\ ex.status = "returned" => ex.retval # NoOpnd
    /\ prog[1].tag = "IfStmt" => ex.hits[IfMergeB] = 0

Constructs == {"IfStmt", "WhileStmt", "ForStmt"}

ConstructPrograms == IfPrograms \cup WhilePrograms \cup ForPrograms \cup NestPrograms

EndName(e) == IF e.tag = "IfStmt" THEN "merge_block" ELSE "loop_exit"

\* the statements lowered so far, and the block the syntax tree says lowering
\* stands in after them
LoweredStmts == SubSeq(prog, 1, idx - 1)
ExpectedBlock == EndBlockSeq(LoweredStmts, MainBlock, MainBlock)

\* a program of NestPrograms: the body of the outer construct, the block its
\* lowering starts in and the number of blocks there are then
NestBody == IF prog[1].tag = "IfStmt" THEN prog[1].then ELSE prog[1].body
NestBodyB == IF prog[1].tag = "IfStmt" THEN MainBlock + 1 ELSE MainBlock + 2
NestBlocks == IF prog[1].tag = "IfStmt" THEN MainBlock + 2 ELSE MainBlock + 3
NestInnerEnd == EndBlock(NestBody.exprs[1], NestBodyB, NestBlocks)

BlocksHolding(op) ==
  {b \in 1..Len(st.blocks) : CountOp(st.blocks[b].ins, op) > 0}

\* C23: once an if/else, a while or a for is lowered, lowering stands in the
\* construct's own merge / exit block (builder position and current block
\* alike), also when both branches of the if/else return; the same holds of
\* a construct nested in another: the statement that follows it in the body
\* is emitted into the nested construct's merge / exit block.
C23_PositionAfterConstruct ==
  /\ (prog \in ConstructPrograms /\ phase = "lowering" /\ idx > 1
        /\ prog[idx - 1].tag \in Constructs) =>
       /\ st.pos = ExpectedBlock
       /\ st.block = ExpectedBlock
       /\ st.blocks[ExpectedBlock].name = EndName(prog[idx - 1])
       /\ ExpectedBlock = Len(st.blocks) - BlocksOf(prog[idx - 1]) + 
            (IF prog[idx - 1].tag = "IfStmt" THEN 2 ELSE 3)
  /\ (prog \in NestPrograms /\ phase = "lowering" /\ idx = 2) =>
       /\ BlocksHolding("print") = {NestInnerEnd}
       /\ st.blocks[NestInnerEnd].name = EndName(NestBody.exprs[1])

\* both branches of a nested if/else return: its merge block is created, no
\* branch leads to it, and the print that follows is emitted into it
C23_Witness ==
  /\ prog \in NestPrograms
  /\ idx = 2
  /\ phase = "lowering"
  /\ prog[1].tag = "WhileStmt"
  /\ NestBody.exprs[1].tag = "IfStmt"
  /\ YieldsReturn(NestBody.exprs[1].then)
  /\ NestBody.exprs[1].else # NoElse
  /\ YieldsReturn(NestBody.exprs[1].else)
  /\ CountOp(st.blocks[NestInnerEnd].ins, "print") = 1
  /\ \A b \in 1..Len(st.blocks) : BrsTo(st.blocks[b].ins, NestInnerEnd) = {}
  /\ st.pos = MainBlock + 3

\* the for loop of a program of ForPrograms, lowered from "main": its blocks,
\* the instructions of its test and the cell of the loop variable
ForCondB == MainBlock + 1
ForBodyB == MainBlock + 2
ForExitB == MainBlock + 3
ForTests ==
  LET code == st.blocks[ForCondB].ins
  IN  {code[k] : k \in {j \in 1..Len(code) : code[j].op = "icmp"}}
ForLowered ==
  /\ prog \in ForPrograms
  /\ idx = 2
  /\ Len(st.blocks) >= ForExitB
ForCell == Lookup("i").ptr

\* the test was executed and the conditional branch of loop_cond is next
AtForBranch ==
  /\ ForLowered
  /\ Ended
  /\ ex.status = "running"
  /\ ex.stack = <<>>
  /\ ex.b = ForCondB
  /\ ex.i = Len(st.blocks[ForCondB].ins)

ForTestResult == ex.regs[st.blocks[ForCondB].ins[ex.i].a.v]

\* C24: the test of a for loop compares the loop variable against the bound
\* with signed < if the step is > 0 and with signed > otherwise (step <= 0,
\* step 0 included); the operator is chosen at lowering from the literal step
\* and is the same on every iteration.
C24_ForTestByStepSign ==
  ForLowered =>
    /\ Cardinality(ForTests) = 1
    /\ \A t \in ForTests :
         /\ t.x = (IF prog[1].incr > 0 THEN "SLT" ELSE "SGT")
         /\ t.b = Const(prog[1].length, 32)
    /\ AtForBranch =>
         ForTestResult = (IF (IF prog[1].incr > 0
                                THEN ex.mem[ForCell] < prog[1].length
                                ELSE ex.mem[ForCell] > prog[1].length)
                          THEN 1 ELSE 0)

\* C24 as amended: signed > if the step is < 0 and signed < otherwise (step
\* >= 0, step 0 included); one test, emitted once, decides every iteration.
C24_ForTestReversedOnlyBelowZero ==
  ForLowered =>
    /\ Cardinality(ForTests) = 1
    /\ \A t \in ForTests :
         /\ t.x = (IF prog[1].incr < 0 THEN "SGT" ELSE "SLT")
         /\ t.b = Const(prog[1].length, 32)
    /\ AtForBranch =>
         ForTestResult = (IF (IF prog[1].incr < 0
                                THEN ex.mem[ForCell] > prog[1].length
                                ELSE ex.mem[ForCell] < prog[1].length)
                          THEN 1 ELSE 0)

\* step 0 from 0 below the bound 3: the test is <, it succeeded and the body
\* has already run
C24_Witness ==
  /\ AtForBranch
  /\ prog[1].incr = 0
  /\ prog[1].init = 0
  /\ prog[1].length = 3
  /\ ForTestResult = 1
  /\ ex.hits[ForBodyB] >= 1

Resources == {"builder", "module", "engine", "context"}

ReleaseOrder ==
  IF env.engine THEN <<"builder", "engine", "context">>
  ELSE <<"builder", "module", "context">>

\* C25: session end releases the resources in a fixed order on both paths:
\* the implicit void return is appended first, the builder is released
\* before the context, the module is released exactly when execution-engine
\* mode is off (in process the engine is released instead and the module not
\* separately), and the context last; no resource is released twice or used
\* after its release.
C25_ReleaseOrder ==
  /\ phase = "lowering" => rsrc = NewResources
  /\ rsrc.log # <<>> =>
       /\ LET code == st.blocks[st.pos].ins
          IN  code # <<>> /\ code[Len(code)].op = "retvoid"
       /\ rsrc.log = ReleaseOrder
       /\ rsrc.builder = "released"
       /\ rsrc.context = "released"
       /\ rsrc.module = (IF env.engine THEN "owned" ELSE "released")
       /\ rsrc.engine = (IF env.engine THEN "released" ELSE "none")
  /\ \A name \in Resources : rsrc[name] # "double"
  /\ ~rsrc.misused

\* in process: "main" ran to its return out of the live engine, and then the
\* builder, the engine and the context were released, in this order
C25_Witness ==
  /\ env.engine
  /\ Returned
  /\ ex.steps > 1
  /\ rsrc.log = <<"builder", "engine", "context">>
  /\ rsrc.module = "owned"

Listed(cache, d) == {cache.local[d][k] : k \in 1..Len(cache.local[d])}
Bound(cache) == {n \in Names : cache.map[n] # NoValue}

\* C26: after any sequence of successfully lowered statements every name in
\* the variable map is listed in the depth index under a depth not above the
\* current depth, the depth index holds nothing for a depth above the
\* current depth (the blocks of those depths have exited), and the depth
\* counter is what it was before the statements (blocks included) were
\* lowered.
C26_DepthIndexCoversMap ==
  phase \in {"lowering", "running", "ended"} =>
    /\ \A n \in Bound(st.var_cache) :
         \E d \in 0..st.depth : n \in Listed(st.var_cache, d)
    /\ \A d \in Depths : d > st.depth => st.var_cache.local[d] = <<>>
    /\ st.depth = InitState.depth

\* x was bound at depth 0, then a block binding y and holding a nested block
\* that binds x again was lowered: x is still bound and listed under depth 0,
\* y is evicted, the index of the block depths is empty, the depth is 0 again
C26_Witness ==
  /\ prog \in ScopePrograms
  /\ Len(prog) >= 2
  /\ idx = 3
  /\ phase = "lowering"
  /\ prog[1] = LetStmt("x", Number(1))
  /\ prog[2] = Block2(LetStmt("y", Number(1)),
                      Block2(LetStmt("x", Number(3)), LetStmt("y", Number(2))))
  /\ Bound(st.var_cache) = {"x"}
  /\ Listed(st.var_cache, 0) = {"x"}
  /\ st.var_cache.local[1] = <<>>
  /\ st.depth = 0

\* the while loop of a program of WhilePrograms: its blocks, the cell of the
\* condition's value (the one loop_cond reloads) and the boolean scratch cell
WhileCondB == MainBlock + 1
WhileBodyB == MainBlock + 2
WhileExitB == MainBlock + 3
WhileCondCell == st.blocks[WhileCondB].ins[1].a.v
WhileScratchCell == MainIns[Len(MainIns) - 1].dst

StoresInto(b, cell) ==
  {k \in 1..Len(st.blocks[b].ins) :
     st.blocks[b].ins[k].op = "store" /\ st.blocks[b].ins[k].dst = cell}
LoadsFrom(b, cell) ==
  {k \in 1..Len(st.blocks[b].ins) :
     st.blocks[b].ins[k].op = "load" /\ st.blocks[b].ins[k].a.v = cell}

\* C27: a while loop reaches its exit block only if the cell of the
\* condition's value holds false when loop_cond reloads it; a loop whose body
\* emits no store into that cell (its condition is a comparison, say) runs
\* its body zero times or never reaches exit; the boolean scratch cell is
\* written once and never read.
C27_WhileExitsOnlyOnFalseCell ==
  (prog \in WhilePrograms /\ WhileLowered) =>
    /\ st.blocks[MainIns[Len(MainIns)].t1].name = "loop_cond"
    /\ MainIns[Len(MainIns)].t1 = WhileCondB
    /\ (Ended /\ ex.hits[WhileExitB] > 0) => ex.mem[WhileCondCell] = 0
    /\ (Ended /\ ex.b = WhileCondB /\ ex.i = 2 /\ ex.status = "running") =>
         ex.regs[st.blocks[WhileCondB].ins[1].dst] = ex.mem[WhileCondCell]
    /\ (Ended /\ StoresInto(WhileBodyB, WhileCondCell) = {}) =>
         (ex.hits[WhileBodyB] = 0 \/ ex.hits[WhileExitB] = 0)
    /\ Cardinality(UNION {{<<b, k>> : k \in StoresInto(b, WhileScratchCell)} :
                            b \in 1..Len(st.blocks)}) = 1
    /\ \A b \in 1..Len(st.blocks) : LoadsFrom(b, WhileScratchCell) = {}

\* the condition is the comparison x < 2 and the body prints x: no store
\* into the cell of the comparison's result, the body has run again and again
\* and exit was never reached
C27_Witness ==
  /\ prog \in WhilePrograms
  /\ WhileLowered
  /\ Ended
  /\ prog[3].cond = Binary(Variable("x"), "<", Number(2))
  /\ prog[3].body = Block1(PrintStmt(Variable("x")))
  /\ StoresInto(WhileBodyB, WhileCondCell) = {}
  /\ ex.hits[WhileBodyB] >= 3
  /\ ex.hits[WhileExitB] = 0
  /\ ex.mem[WhileCondCell] = 1

\* C28: every for loop with a nonzero step whose body does not assign the
\* loop variable terminates when executed: whatever the 32-bit init and the
\* bound lowering accepts, the execution, with the addition wrapping modulo
\* 2^32, eventually reaches the exit block.
C28_ForLoopTerminates ==
  (prog \in LivePrograms /\ Ended /\ prog[1].incr # 0)
    ~> (Ended /\ ex.hits[ForExitB] > 0)

\* the number a literal stands for
LitVal(e) == IF e.tag = "Bool" THEN (IF e.b THEN 1 ELSE 0) ELSE e.n

\* what `x op c` is for the value a of x
IdealBinary(op, a, c) ==
  CASE op = "+" -> a + c
    [] op = "-" -> a - c
    [] OTHER -> IF IdealCmp(op, a, c) THEN 1 ELSE 0

\* C29: a comparison or an arithmetic operation on a variable operand
\* observes the value most recently assigned to the variable, whatever its
\* kind (Number32, Number64, Bool): the operand is reloaded from the
\* variable's cell, not taken from the value of its binding.
C29_OperandIsLatestValue ==
  (prog \in ReloadPrograms /\ Returned) =>
    ex.retval.v = IdealBinary(prog[3].e.op, LitVal(prog[2].e), LitVal(prog[3].e.rhs))

\* the position of the loop in a program of ForVarTopPrograms, and the cell
\* loop_cond reloads
ForVarAt == IF prog[1].tag = "ForStmt" THEN 1 ELSE 2
LoopCell ==
  LET condB == CHOOSE b \in BlocksNamed("loop_cond") : TRUE
  IN  st.blocks[condB].ins[1].a.v

\* C30: the loop variable of a for loop is bound with set at the depth of the
\* statement that holds the loop, not at the depth of the body: it replaces
\* any binding of the name whatever its kind, it is not evicted when the body
\* block exits and stays readable after the loop until the enclosing block
\* exits.
C30_LoopVariableAtStatementDepth ==
  /\ prog \in ForVarTopPrograms =>
       /\ phase # "aborted"
       /\ idx > ForVarAt =>
            /\ Lookup("i").kind = "Number"
            /\ Lookup("i").val = Const(prog[ForVarAt].init, 32)
            /\ Lookup("i").ptr = LoopCell
            /\ "i" \in Listed(st.var_cache, 0)
            /\ st.var_cache.local[1] = <<>>
            /\ Lookup("y") = NoValue
  /\ prog \in ForVarBlockPrograms =>
       /\ phase # "aborted"
       /\ idx > 1 =>
            /\ AllRets = {Const(0, 32)}
            /\ Lookup("i") = NoValue
            /\ \A d \in Depths : st.var_cache.local[d] = <<>>

\* i was bound to a Bool, the loop over i re-bound it to its Number and its
\* body, which binds y, has exited; the return of i that follows was lowered
\* and executed
C30_Witness ==
  /\ prog \in ForVarTopPrograms
  /\ Len(prog) = 3
  /\ prog[1] = LetStmt("i", Bool(TRUE))
  /\ prog[2].body = Block1(LetStmt("y", Number(1)))
  /\ prog[3] = ReturnStmt(Variable("i"))
  /\ Returned
  /\ Lookup("i").kind = "Number"
  /\ Lookup("i").ptr = LoopCell
  /\ Lookup("y") = NoValue

====
